---------------------------- MODULE Spec2Model ----------------------------
(***************************************************************************)
(* A model of the TXT/EPUB to PDF converter (src/converter.py).            *)
(*                                                                         *)
(*   Spec     one conversion job: ConversionWorker.run and the pipelines   *)
(*            convert_txt_to_pdf / convert_epub_to_pdf it calls, step by   *)
(*            step, for every accepted input path, book and setting.       *)
(*   GuiSpec  the window: the handlers of FileConverter (select, drop,     *)
(*            convert, worker finished / error) and the worker threads     *)
(*            they start, each thread seen only through its signals.       *)
(*   ResolverSpec  the image index of convert_epub_to_pdf and the resolver *)
(*            _data_uri_for_src applied to references, over manifests of   *)
(*            items and reference strings.                                 *)
(*                                                                         *)
(* The rendering engine (weasyprint) and the EPUB reader (ebooklib) are    *)
(* external: a render returns a document of some number of pages or        *)
(* raises, reading a file returns its content or raises.                   *)
(***************************************************************************)
EXTENDS Integers, Sequences, FiniteSets, TLC

(***************************************************************************)
(* Bounds of the model.                                                    *)
(***************************************************************************)
MaxPages == 4
MaxTocPages == 2
MaxSpine == 2
MaxStartPage == 5
MaxJobs == 2
MaxItems == 2
MaxTocItems == 2

(***************************************************************************)
(* Strings the code takes apart are sequences of one-character strings.    *)
(***************************************************************************)
None == "None"

Lower(s) ==
  [k \in 1..Len(s) |->
     CASE s[k] = "E" -> "e"
       [] s[k] = "P" -> "p"
       [] s[k] = "U" -> "u"
       [] s[k] = "B" -> "b"
       [] s[k] = "T" -> "t"
       [] s[k] = "X" -> "x"
       [] s[k] = "I" -> "i"
       [] s[k] = "S" -> "s"
       [] s[k] = "R" -> "r"
       [] s[k] = "C" -> "c"
       [] s[k] = "L" -> "l"
       [] OTHER -> s[k]]

EndsWith(s, suffix) ==
  /\ Len(s) >= Len(suffix)
  /\ SubSeq(s, Len(s) - Len(suffix) + 1, Len(s)) = suffix

StartsWith(s, prefix) ==
  /\ Len(s) >= Len(prefix)
  /\ SubSeq(s, 1, Len(prefix)) = prefix

DotTxt == <<".", "t", "x", "t">>
DotEpub == <<".", "e", "p", "u", "b">>
DotPdf == <<".", "p", "d", "f">>

\* os.path.splitext(path)[0]: the path up to its last dot, when that dot
\* comes after the last separator and is not a leading dot of the file name.
SplitExtRoot(path) ==
  LET seps == {k \in 1..Len(path) : path[k] = "/"}
      base == IF seps = {} THEN 1
              ELSE (CHOOSE k \in seps : \A j \in seps : j <= k) + 1
      dots == {k \in base..Len(path) :
                 /\ path[k] = "."
                 /\ \E j \in base..(k - 1) : path[j] # "."}
  IN IF dots = {} THEN path
     ELSE SubSeq(path, 1, (CHOOSE k \in dots : \A j \in dots : j <= k) - 1)

\* The files a user can hand to the window.
FilePaths ==
  { <<"b", ".", "t", "x", "t">>,
    <<"b", ".", "e", "p", "u", "b">>,
    <<"b", ".", "E", "P", "U", "B">>,
    <<"b", ".", "T", "x", "t">>,
    <<"b", ".", "p", "d", "f">> }

\* dragEnterEvent / dropEvent: file_path.lower().endswith(('.epub', '.txt'))
Accepted(file_path) ==
  \/ EndsWith(Lower(file_path), DotEpub)
  \/ EndsWith(Lower(file_path), DotTxt)

OutputPathFor(file_path) == SplitExtRoot(file_path) \o DotPdf

(***************************************************************************)
(* The books: a manifest of document items (named by their path) in        *)
(* manifest order, and a spine of item ids; an id the manifest does not    *)
(* hold resolves to None.  An item's id is its name here.                  *)
(***************************************************************************)
DocNames == {"ch1.xhtml", "ch2.xhtml"}

SeqsUpTo(S, n) == UNION {[1..k -> S] : k \in 0..n}

IsInjective(s) == \A a, b \in 1..Len(s) : s[a] = s[b] => a = b

Range(s) == {s[k] : k \in 1..Len(s)}

Manifests == {m \in SeqsUpTo(DocNames, Cardinality(DocNames)) : IsInjective(m)}

Books == [manifest : Manifests, spine : SeqsUpTo(DocNames, MaxSpine)]

StartPages == {1, MaxStartPage}

\* the page counts a render of a chapter or a text file may return
PageCounts == {2, 3, MaxPages}

\* the page counts a render of the TOC may return
TocPageCounts == {1, MaxTocPages}

Settings ==
  [page_numbers : BOOLEAN, toc : BOOLEAN, toc_numbers : BOOLEAN,
   toc_start_page : StartPages]

\* book.get_item_with_id(item_id)
get_item_with_id(book, item_id) ==
  IF item_id \in Range(book.manifest) THEN item_id ELSE None

RECURSIVE AppendMissing(_, _, _)
AppendMissing(items, docs, spine_hrefs) ==
  IF docs = <<>> THEN items
  ELSE AppendMissing(
         IF Head(docs) \notin spine_hrefs THEN Append(items, Head(docs))
         ELSE items,
         Tail(docs), spine_hrefs)

\* the spine's items alone
ItemsOfSpineOnly(book) ==
  [k \in 1..Len(book.spine) |-> get_item_with_id(book, book.spine[k])]

\* items_to_process: the spine's items, then the documents not in the spine
ItemsToProcess(book) ==
  LET from_spine == [k \in 1..Len(book.spine) |->
                       get_item_with_id(book, book.spine[k])]
      spine_hrefs == Range(from_spine) \ {None}
  IN AppendMissing(from_spine, book.manifest, spine_hrefs)

(***************************************************************************)
(* Pagination arithmetic and rendered documents.                           *)
(***************************************************************************)
NoReset == -1

AdvanceByOne(page_count, rendered_pages) == page_count + 1

\* current_page += len(doc.pages)
Advance(page_count, rendered_pages) == page_count + rendered_pages

NoFooter == -1

\* a seed that forgets the TOC's pages
BaselineWithoutToc(toc_pages, start_page) == start_page - 1

\* current_page = toc_page_count + start_page - 1
Baseline(toc_pages, start_page) == toc_pages + start_page - 1

\* the running count itself recorded as the chapter's first page
ChapterStartAtCount(page_count) == page_count

\* chapter_page_map[doc_item.get_name()] = current_page + 1
ChapterStart(page_count) == page_count + 1

\* percent = 10 + int((current_step / len(items_to_process)) * 80)
Percent(current_step, n_items) == 10 + (current_step * 80) \div n_items

\* a reset that already counts the chapter's first page
CounterResetPlusOne(s, value) == IF s.page_numbers THEN value + 1 ELSE NoReset

\* body { counter-reset: page N } when page numbers are on
CounterReset(s, value) == IF s.page_numbers THEN value ELSE NoReset

\* the footer "content: counter(page)" prints on the k-th page of a document
\* whose body resets the page counter to doc.reset
Footer(doc, k) == IF doc.reset = NoReset THEN NoFooter ELSE doc.reset + k

PagesOf(doc) ==
  [k \in 1..doc.pages |->
     [kind |-> doc.kind, name |-> doc.name, k |-> k, footer |-> Footer(doc, k)]]

RECURSIVE AllPages(_)
AllPages(docs) ==
  IF docs = <<>> THEN <<>> ELSE PagesOf(Head(docs)) \o AllPages(Tail(docs))

\* a warning only when the TOC grew
TocSizeGrew(real_pages, estimated_pages) == real_pages > estimated_pages

\* if len(real_toc_doc.pages) != toc_page_count: logging.warning(...)
TocSizeChanged(real_pages, estimated_pages) == real_pages # estimated_pages

\* the TOC appended after the chapters
AppendToc(docs, toc_doc) == docs \o <<toc_doc>>

\* documents.insert(0, real_toc_doc)
InsertToc(docs, toc_doc) == <<toc_doc>> \o docs

MapPut(m, key, value) ==
  [n \in DOMAIN m \cup {key} |-> IF n = key THEN value ELSE m[n]]

EmptyMap == [n \in {} |-> 0]

\* the file at output_path: absent, or a PDF of some pages
\* FileConverter.file_path = None
NoPath == <<>>

\* ConversionWorker(self.file_path, output_path, settings, self) on its thread
NewWorker(path) ==
  [input_path |-> path, output_path |-> OutputPathFor(path), st |-> "running"]

(***************************************************************************)
(* The image index and the resolver.  A manifest item has a name, a type   *)
(* (ITEM_IMAGE or another), a media type <<major, minor>> and a content.   *)
(***************************************************************************)
FilePrefix == <<"f", "i", "l", "e", ":", "/", "/", "/">>
DataPrefix == <<"d", "a", "t", "a", ":">>

ImgDir == <<"i", "m", "g">>
ImgDirCapital == <<"I", "m", "g">>
OtherDir == <<"o">>
UpDir == <<".", ".">>
CoverJpg == <<"c", ".", "j">>
SpacedPng == <<"a", " ", "b", ".", "p">>
SpacedPngEncoded == <<"a", "%", "2", "0", "b", ".", "p">>
AbsentJpg == <<"x", ".", "j">>
QuotedJpg == <<"c", "'", ".", "j">>
Slash == <<"/">>
Backslash == <<"\\">>
SlashEncoded == <<"%", "2", "F">>

ManifestItems ==
  { [name |-> ImgDir \o Slash \o CoverJpg, type |-> "image",
     media_type |-> <<"image", "jpeg">>, content |-> "A"],
    [name |-> ImgDir \o Backslash \o CoverJpg, type |-> "image",
     media_type |-> <<"image", "jpeg">>, content |-> "B"],
    [name |-> OtherDir \o Slash \o CoverJpg, type |-> "unknown",
     media_type |-> <<"image", "webp">>, content |-> "C"],
    [name |-> ImgDir \o Slash \o SpacedPng, type |-> "image",
     media_type |-> <<"image", "png">>, content |-> "D"],
    [name |-> OtherDir \o Slash \o CoverJpg, type |-> "style",
     media_type |-> <<"text", "css">>, content |-> "E"],
    [name |-> OtherDir \o Slash \o QuotedJpg, type |-> "image",
     media_type |-> <<"image", "jpeg">>, content |-> "F"] }

References ==
  {<<>>} \cup
  { prefix \o dir \o file :
      prefix \in {<<>>, FilePrefix, DataPrefix},
      dir \in {<<>>} \cup
              { d \o sep :
                  d \in {ImgDir, ImgDirCapital, OtherDir,
                         UpDir \o Slash \o ImgDir},
                  sep \in {Slash, Backslash, SlashEncoded} },
      file \in {CoverJpg, SpacedPng, SpacedPngEncoded, AbsentJpg} }

\* the escapes urllib.parse.unquote decodes, among the characters in use
HexPairs == {<<"2", "0">>, <<"2", "F">>, <<"2", "f">>, <<"5", "C">>,
             <<"5", "c">>, <<"2", "5">>}

HexChar(pair) ==
  CASE pair = <<"2", "0">> -> " "
    [] pair \in {<<"2", "F">>, <<"2", "f">>} -> "/"
    [] pair \in {<<"5", "C">>, <<"5", "c">>} -> "\\"
    [] pair = <<"2", "5">> -> "%"

\* urllib.parse.unquote: one pass, an escape it cannot decode is kept
RECURSIVE unquote(_)
unquote(s) ==
  IF s = <<>> THEN <<>>
  ELSE IF s[1] = "%" /\ Len(s) >= 3 /\ <<s[2], s[3]>> \in HexPairs
       THEN <<HexChar(<<s[2], s[3]>>)>> \o unquote(SubSeq(s, 4, Len(s)))
       ELSE <<s[1]>> \o unquote(Tail(s))

\* str.replace("\\", "/")
ReplaceBackslashes(s) ==
  [k \in 1..Len(s) |-> IF s[k] = "\\" THEN "/" ELSE s[k]]

\* offset of raw[8:], the length of "file:///"
FilePrefixLength == 8

\* if raw.startswith("file:///"): raw = raw[8:]
StripFilePrefix(raw) ==
  IF StartsWith(raw, FilePrefix)
  THEN SubSeq(raw, FilePrefixLength + 1, Len(raw))
  ELSE raw

\* raw = unquote(src_value).replace("\\", "/"), without a leading file:///
NormalizeReference(src) == StripFilePrefix(ReplaceBackslashes(unquote(src)))

\* os.path.basename: what follows the last "/"
basename(path) ==
  LET seps == {k \in 1..Len(path) : path[k] = "/"}
  IN IF seps = {} THEN path
     ELSE SubSeq(path, (CHOOSE k \in seps : \A j \in seps : j <= k) + 1,
                 Len(path))

\* item.get_type() == ITEM_IMAGE or item.media_type.startswith('image/')
IsImageItem(item) == item.type = "image" \/ item.media_type[1] = "image"

\* images_by_path[key] = item: a new key goes last, a known key keeps its place
IndexPut(index, key, item) ==
  IF \E k \in 1..Len(index) : index[k].path = key
  THEN [k \in 1..Len(index) |->
          IF index[k].path = key THEN [path |-> key, item |-> item]
          ELSE index[k]]
  ELSE Append(index, [path |-> key, item |-> item])

RECURSIVE BuildIndex(_, _)
BuildIndex(index, items) ==
  IF items = <<>> THEN index
  ELSE BuildIndex(
         IF IsImageItem(Head(items))
         THEN IndexPut(index, ReplaceBackslashes(Head(items).name), Head(items))
         ELSE index,
         Tail(items))

NoUri == [found |-> FALSE, media_type |-> <<>>, content |-> ""]

\* f"data:{item.media_type};base64,{b64}", by what it carries
DataUri(item) ==
  [found |-> TRUE, media_type |-> item.media_type, content |-> item.content]

\* the first of the entries hits, in the index's order; 0 when there is none
FirstMatch(hits) ==
  IF hits = {} THEN 0 ELSE CHOOSE k \in hits : \A j \in hits : k <= j

\* the entries of the index filed under the path raw
ExactHits(index, raw) == {k \in 1..Len(index) : index[k].path = raw}

\* the entries of the index whose file name is that of raw
FilenameHits(index, raw) ==
  {k \in 1..Len(index) : basename(index[k].path) = basename(raw)}

\* a resolver that tries the file name before the exact path
data_uri_by_filename_first(index, src) ==
  IF src = <<>> \/ StartsWith(src, DataPrefix) THEN NoUri
  ELSE LET raw == NormalizeReference(src)
           named == FirstMatch(FilenameHits(index, raw))
       IN IF named # 0 THEN DataUri(index[named].item) ELSE NoUri

\* _data_uri_for_src
data_uri_for_src(index, src) ==
  IF src = <<>> \/ StartsWith(src, DataPrefix) THEN NoUri
  ELSE LET raw == NormalizeReference(src)
           exact == FirstMatch(ExactHits(index, raw))
           named == FirstMatch(FilenameHits(index, raw))
       IN IF exact # 0 THEN DataUri(index[exact].item)
          ELSE IF named # 0 THEN DataUri(index[named].item)
          ELSE NoUri

(***************************************************************************)
(* The inliner: the two re.sub calls over a chapter's markup and the one   *)
(* over the stylesheet text, character by character.                       *)
(***************************************************************************)
\* base64.b64encode of the one-byte contents of ManifestItems
b64encode(content) ==
  CASE content = "A" -> "QQ=="
    [] content = "B" -> "Qg=="
    [] content = "C" -> "Qw=="
    [] content = "D" -> "RA=="
    [] content = "E" -> "RQ=="
    [] content = "F" -> "Rg=="

\* f"data:{item.media_type};base64,{b64}" as text
DataUriText(uri) ==
  DataPrefix \o <<uri.media_type[1], "/", uri.media_type[2], ";base64,",
                  b64encode(uri.content)>>

\* the characters \w matches, among those in use
WordChars ==
  {"a", "b", "c", "d", "e", "f", "h", "i", "j", "k", "l", "m", "n", "o", "p",
   "r", "s", "t", "u", "x", "C", "I", "R", "S", "0", "2", "6", "_"}

QuoteChars == {"\"", "'"}

IsWordAt(s, k) == k >= 1 /\ k <= Len(s) /\ s[k] \in WordChars

\* \b between s[k - 1] and s[k]
WordBoundary(s, k) == IsWordAt(s, k - 1) # IsWordAt(s, k)

\* \s*: the first position from k on that holds no space
RECURSIVE SkipSpaces(_, _)
SkipSpaces(s, k) ==
  IF k <= Len(s) /\ s[k] = " " THEN SkipSpaces(s, k + 1) ELSE k

\* [^'"]+ : the first position from k on that holds a quote, or Len(s) + 1
RECURSIVE NextQuote(_, _)
NextQuote(s, k) ==
  IF k <= Len(s) /\ s[k] \notin QuoteChars THEN NextQuote(s, k + 1) ELSE k

\* (?:src|href|xlink:href), in the order the alternatives are tried
AttrNames ==
  << <<"s", "r", "c">>, <<"h", "r", "e", "f">>,
     <<"x", "l", "i", "n", "k", ":", "h", "r", "e", "f">> >>

NoMatch == [matched |-> FALSE, attr |-> <<>>, quote |-> "", group3 |-> <<>>,
            first |-> 0, last |-> 0]

\* the pattern (\b(?:src|href|xlink:href)\b)\s*=\s*(['"])([^'"]+)\2 with
\* re.IGNORECASE, tried at position p with the attribute name AttrNames[n]
AttrMatchWith(s, p, n) ==
  LET name == AttrNames[n]
      e == p + Len(name)
      eq == SkipSpaces(s, e)
      q == SkipSpaces(s, eq + 1)
      close == NextQuote(s, q + 1)
  IN IF /\ e - 1 <= Len(s)
        /\ Lower(SubSeq(s, p, e - 1)) = name
        /\ WordBoundary(s, p)
        /\ WordBoundary(s, e)
        /\ eq <= Len(s) /\ s[eq] = "="
        /\ q <= Len(s) /\ s[q] \in QuoteChars
        /\ close > q + 1
        /\ close <= Len(s) /\ s[close] = s[q]
     THEN [matched |-> TRUE, attr |-> SubSeq(s, p, e - 1), quote |-> s[q],
           group3 |-> SubSeq(s, q + 1, close - 1), first |-> p,
           last |-> close]
     ELSE NoMatch

AttrMatchAt(s, p) ==
  IF AttrMatchWith(s, p, 1).matched THEN AttrMatchWith(s, p, 1)
  ELSE IF AttrMatchWith(s, p, 2).matched THEN AttrMatchWith(s, p, 2)
  ELSE AttrMatchWith(s, p, 3)

\* replace_attr(match) of the chapter loop
replace_attr(index, s, m) ==
  LET uri == data_uri_for_src(index, m.group3)
  IN IF uri.found
     THEN m.attr \o <<"=", m.quote>> \o DataUriText(uri) \o <<m.quote>>
     ELSE SubSeq(s, m.first, m.last)

\* re.sub(pattern, replace_attr, content, flags=re.IGNORECASE), from p on
RECURSIVE SubAttrs(_, _, _)
SubAttrs(index, s, p) ==
  IF p > Len(s) THEN <<>>
  ELSE LET m == AttrMatchAt(s, p)
       IN IF m.matched
          THEN replace_attr(index, s, m) \o SubAttrs(index, s, m.last + 1)
          ELSE <<s[p]>> \o SubAttrs(index, s, p + 1)

\* the last backslash among s[lo..hi], 0 when there is none
LastBackslash(s, lo, hi) ==
  LET hits == {k \in lo..hi : k <= Len(s) /\ s[k] = "\\"}
  IN IF hits = {} THEN 0 ELSE CHOOSE k \in hits : \A j \in hits : j <= k

\* [^)]+ : the first position from k on that holds ")", or Len(s) + 1
RECURSIVE NextParen(_, _)
NextParen(s, k) ==
  IF k <= Len(s) /\ s[k] # ")" THEN NextParen(s, k + 1) ELSE k

NoUrlMatch == [matched |-> FALSE, group1 |-> <<>>, first |-> 0, last |-> 0]

\* the pattern r'url\\(([^)]+)\\)' with re.IGNORECASE at position p: the
\* letters url, a backslash, then group 1 = a longest run of characters
\* other than ")" followed by a backslash
UrlMatchAt(s, p) ==
  LET stop == NextParen(s, p + 4)
      close == LastBackslash(s, p + 5, stop - 1)
  IN IF /\ p + 3 <= Len(s)
        /\ Lower(SubSeq(s, p, p + 2)) = <<"u", "r", "l">>
        /\ s[p + 3] = "\\"
        /\ close # 0
     THEN [matched |-> TRUE, group1 |-> SubSeq(s, p + 4, close), first |-> p,
           last |-> close]
     ELSE NoUrlMatch

StripChars == {" ", "\"", "'"}

\* str.strip(' "\'')
RECURSIVE Strip(_)
Strip(s) ==
  IF s = <<>> THEN s
  ELSE IF s[1] \in StripChars THEN Strip(Tail(s))
  ELSE IF s[Len(s)] \in StripChars THEN Strip(SubSeq(s, 1, Len(s) - 1))
  ELSE s

\* replace_css_url(match)
replace_css_url(index, s, m) ==
  LET uri == data_uri_for_src(index, Strip(m.group1))
  IN IF uri.found
     THEN <<"u", "r", "l", "(", "\"">> \o DataUriText(uri) \o <<"\"", ")">>
     ELSE SubSeq(s, m.first, m.last)

\* re.sub(r'url\\(([^)]+)\\)', replace_css_url, text, flags=re.IGNORECASE)
RECURSIVE SubCssUrls(_, _, _)
SubCssUrls(index, s, p) ==
  IF p > Len(s) THEN <<>>
  ELSE LET m == UrlMatchAt(s, p)
       IN IF m.matched
          THEN replace_css_url(index, s, m) \o SubCssUrls(index, s, m.last + 1)
          ELSE <<s[p]>> \o SubCssUrls(index, s, p + 1)

\* what the chapter loop does to a chapter's content before rendering it
InlineContent(index, text) == SubCssUrls(index, SubAttrs(index, text, 1), 1)

\* what is done to the stylesheet text
InlineStyles(index, text) == SubCssUrls(index, text, 1)

\* the pieces a text under the inliner is put together from
TextOf(parts) ==
  parts.pre \o parts.attr \o parts.eq \o parts.open \o parts.ref
    \o parts.close \o parts.post

NoParts == [pre |-> <<>>, attr |-> <<>>, eq |-> <<>>, open |-> <<>>,
            ref |-> <<>>, close |-> <<>>, post |-> <<>>]

NoText == [parts |-> NoParts, before |-> <<>>, after |-> <<>>]

\* references found in attributes and in url(...)
InlineReferences ==
  { ImgDir \o Slash \o CoverJpg,
    ImgDirCapital \o Slash \o CoverJpg,
    OtherDir \o SlashEncoded \o CoverJpg,
    OtherDir \o Slash \o QuotedJpg,
    AbsentJpg,
    DataPrefix \o OtherDir \o Slash \o CoverJpg }

\* chapter markup <i ATTR=QUOTE REF QUOTE>: the attribute names of the pattern
\* in either case, another attribute ending in -src, both quotes, a closing
\* quote that is not the opening one, an empty value
AttributeParts ==
  { [pre |-> <<"<", "i", " ">>, attr |-> attr, eq |-> eq, open |-> <<q[1]>>,
     ref |-> ref, close |-> <<q[2]>>, post |-> <<">">>] :
      attr \in { <<"s", "r", "c">>, <<"S", "R", "C">>, <<"h", "r", "e", "f">>,
                 <<"x", "l", "i", "n", "k", ":", "h", "r", "e", "f">>,
                 <<"d", "a", "t", "a", "-", "s", "r", "c">> },
      eq \in { <<"=">>, <<" ", "=", " ">> },
      q \in { <<"\"", "\"">>, <<"'", "'">>, <<"\"", "'">> },
      ref \in InlineReferences \cup {<<>>} }

\* CSS text a:url(REF); with the value bare or quoted, and the same text with
\* backslashes where the parentheses are
CssParts ==
  { [pre |-> <<"a", ":">>, attr |-> attr, eq |-> <<paren[1]>>, open |-> q,
     ref |-> ref, close |-> q, post |-> <<paren[2], ";">>] :
      attr \in { <<"u", "r", "l">>, <<"U", "R", "L">> },
      paren \in { <<"(", ")">>, <<"\\", "\\">> },
      q \in { <<>>, <<"\"">>, <<"'">> },
      ref \in InlineReferences }

(***************************************************************************)
(* The persisted settings.  A JSON value is a token: "true", "false", a    *)
(* number; a JSON object gives each of the four keys a token, "missing"    *)
(* for a key it does not hold.                                             *)
(***************************************************************************)
SettingKeys == {"page_numbers", "toc", "toc_numbers", "toc_start_page"}
Missing == "missing"
JsonBooleans == {"true", "false"}
JsonNumbers == {"1", "3"}
\* the objects config.json may hold: each key with a value of its type, or not
\* there
JsonObjects ==
  [page_numbers : JsonBooleans \cup {Missing},
   toc : JsonBooleans \cup {Missing},
   toc_numbers : JsonBooleans \cup {Missing},
   toc_start_page : JsonNumbers \cup {Missing}]

\* what json.load returns: an object, or a value that is not one
Loaded(kind, object) == [kind |-> kind, object |-> object]
NoObject == [k \in SettingKeys |-> Missing]

\* config.json: absent, unreadable, not JSON, or holding a JSON value
ConfigFiles ==
  { Loaded(kind, NoObject) :
      kind \in {"absent", "unreadable", "invalid", "null", "number", "string",
                "list"} }
  \cup { Loaded("object", object) : object \in JsonObjects }

\* the dictionary load_settings returns when it has read none
DefaultSettings ==
  Loaded("object", [page_numbers |-> "true", toc |-> "false",
                    toc_numbers |-> "false", toc_start_page |-> "1"])

\* the defaults given to dict.get for the check boxes by __init__
GetDefaults ==
  [page_numbers |-> "true", toc |-> "true", toc_numbers |-> "true",
   toc_start_page |-> "1"]

\* load_settings()
load_settings(file) ==
  IF file.kind \in {"absent", "unreadable", "invalid"} THEN DefaultSettings
  ELSE file

\* current_settings.get(key, default): only a dict has get
CanGet(loaded) == loaded.kind = "object"
Get(loaded, key) ==
  IF loaded.object[key] = Missing THEN GetDefaults[key]
  ELSE loaded.object[key]

\* QCheckBox.setChecked takes a bool, QSpinBox.setValue an int
BoolOf(token) == token = "true"
IntOf(token) == IF token = "3" THEN 3 ELSE 1

(***************************************************************************)
(* The table of contents.  An item of book.toc is a Link, a tuple of a     *)
(* section and its children, or a bare Section; an href is a sequence of   *)
(* tokens, a file name being one token.                                    *)
(***************************************************************************)
Link(title, href) ==
  [type |-> "link", title |-> title, href |-> href, children |-> <<>>]
SectionTuple(href, children) ==
  [type |-> "tuple", title |-> "Part", href |-> href, children |-> children]
BareSection ==
  [type |-> "section", title |-> "Part", href |-> <<>>, children |-> <<>>]

InnerTuples ==
  { SectionTuple(<<"ch2.xhtml", "#", "s1">>, children) :
      children \in {<<>>, <<Link("One", <<"ch1.xhtml">>)>>} }

TocItems ==
  { Link("One", href) :
      href \in { <<"ch1.xhtml">>, <<"ch1.xhtml", "#", "s1", "#", "s2">>,
                 <<"x.xhtml">>, <<>> } }
  \cup { Link("A<B", <<"ch2.xhtml">>), BareSection }
  \cup { SectionTuple(href, children) :
           href \in { <<"ch1.xhtml", "#", "s1">>, <<>> },
           children \in
             {<<>>, <<Link("One", <<"ch2.xhtml">>)>>,
              <<Link("One", <<"x.xhtml">>),
                Link("One", <<"ch1.xhtml", "#", "s1">>)>>}
             \cup {<<t>> : t \in InnerTuples} }

\* the maps the chapter loop may have left
PageMaps ==
  { EmptyMap, [n \in {"ch1.xhtml"} |-> 2],
    [n \in {"ch1.xhtml", "ch2.xhtml"} |-> IF n = "ch1.xhtml" THEN 2 ELSE 12] }

\* generate_toc_html(book) has page_map=None
NoPageMap == [given |-> FALSE, map |-> EmptyMap]
PageMap(map) == [given |-> TRUE, map |-> map]

\* html.escape, on the titles in use
Escape(title) == IF title = "A<B" THEN "A&lt;B" ELSE title

\* the whole href, fragment and all
whole_href(href) == href

\* href.split('#')[0]
base_href(href) ==
  LET marks == {k \in 1..Len(href) : href[k] = "#"}
  IN IF marks = {} THEN href
     ELSE SubSeq(href, 1, (CHOOSE k \in marks : \A j \in marks : k <= j) - 1)

\* base_href in page_map
IsKey(base, map) == Len(base) = 1 /\ base[1] \in DOMAIN map

Digit(d) == SubSeq(<<"0", "1", "2", "3", "4", "5", "6", "7", "8", "9">>,
                   d + 1, d + 1)

\* str(n) for n >= 0
RECURSIVE str(_)
str(n) == IF n < 10 THEN Digit(n) ELSE str(n \div 10) \o Digit(n % 10)

\* page_num of an entry
page_num(href, toc_numbers, page_map) ==
  IF /\ toc_numbers
     /\ page_map.given
     /\ DOMAIN page_map.map # {}
     /\ IsKey(base_href(href), page_map.map)
  THEN str(page_map.map[base_href(href)[1]])
  ELSE <<>>

\* the <li> written for an item; href is kept to tell which item it is of
TocEntry(item, level, toc_numbers, page_map) ==
  [title |-> Escape(item.title), indent |-> level * 20,
   page_num |-> page_num(item.href, toc_numbers, page_map),
   href |-> item.href]

RECURSIVE process_toc_item(_, _, _, _)
RECURSIVE process_toc_items(_, _, _, _)

\* process_toc_item(toc_item, level)
process_toc_item(item, level, toc_numbers, page_map) ==
  IF item.type = "tuple"
  THEN <<TocEntry(item, level, toc_numbers, page_map)>>
         \o process_toc_items(item.children, level + 1, toc_numbers, page_map)
  ELSE IF item.type = "link"
  THEN <<TocEntry(item, level, toc_numbers, page_map)>>
  ELSE <<>>

process_toc_items(items, level, toc_numbers, page_map) ==
  IF items = <<>> THEN <<>>
  ELSE process_toc_item(Head(items), level, toc_numbers, page_map)
         \o process_toc_items(Tail(items), level, toc_numbers, page_map)

\* generate_toc_html(book, page_map): the list entries, in order
generate_toc_html(toc_items, toc_numbers, page_map) ==
  process_toc_items(toc_items, 0, toc_numbers, page_map)

NoFile == [exists |-> FALSE, pages |-> <<>>]

\* write_pdf(output_path)
WritePdf(pages) == [exists |-> TRUE, pages |-> pages]

VARIABLES
  input_path,        \* ConversionWorker.input_path
  output_path,       \* ConversionWorker.output_path
  settings,          \* ConversionWorker.settings
  book,              \* what epub.read_epub(input_path) returns
  pc,                \* the worker's position in run()
  progress,          \* the values emitted on the progress signal, in order
  signals,           \* the terminal signals emitted (finished / error)
  items_to_process,
  toc_page_count,
  current_page,
  chapter_page_map,
  documents,
  i,                 \* index of the next item of items_to_process (from 1)
  renders,           \* the renderer's calls that returned, in order
  failed,            \* where an exception was raised, once one has been
  warnings,          \* TOC size warnings logged
  output_file,       \* the PDF written at output_path
  file_path,         \* FileConverter.file_path (NoPath for None)
  convert_button,    \* convert_button.isEnabled()
  select_button,     \* select_button.isEnabled()
  progress_bar,      \* progress_bar.value()
  worker_thread,     \* FileConverter.worker_thread: a worker's number, 0 for None
  workers,           \* the ConversionWorkers created so far, in order
  pending,           \* terminal signals queued for the window's thread
  app,               \* "running", or "aborted" once Qt has aborted the process
  manifest_items,    \* book.get_items(), in manifest order
  images_by_path,    \* the image index, in the dict's insertion order
  src_value,         \* the reference last given to _data_uri_for_src
  data_uri,          \* what _data_uri_for_src returned for it
  config_file,       \* config.json
  current_settings,  \* FileConverter.current_settings
  page_numbers_check,   \* page_numbers_check.isChecked()
  toc_check,            \* toc_check.isChecked()
  toc_numbers_check,    \* toc_numbers_check.isChecked()
  toc_start_page_spin,  \* toc_start_page_spin.value()
  spc,               \* startup: "off", "load", "widgets", "shown", "aborted"
  book_toc,          \* book.toc
  dummy_toc_html,    \* the entries of the TOC of the estimate
  real_toc_html,     \* the entries of the final TOC
  tpc,               \* TOC generation: "off", "estimate", "final", "made"
  content,           \* a chapter's content before and after the inliner
  styles,            \* the stylesheet text before and after the inliner
  rpc,               \* "idle", or the resolver's position: "index", "ready",
                     \* then "resolved", "inlined" or "styled"
  first_run          \* what an earlier run of the same job has left, or NoRun

resolver ==
  <<manifest_items, images_by_path, src_value, data_uri, content, styles, rpc>>

startup ==
  <<config_file, current_settings, page_numbers_check, toc_check,
    toc_numbers_check, toc_start_page_spin, spc>>

\* the window's settings are not looked at
StartupOff ==
  /\ config_file = Loaded("absent", NoObject)
  /\ current_settings = DefaultSettings
  /\ page_numbers_check = TRUE
  /\ toc_check = FALSE
  /\ toc_numbers_check = FALSE
  /\ toc_start_page_spin = 1
  /\ spc = "off"

tocgen_texts == <<book_toc, dummy_toc_html, real_toc_html>>

tocgen == <<book_toc, dummy_toc_html, real_toc_html, tpc>>

\* no TOC is generated
TocOff ==
  /\ book_toc = <<>>
  /\ dummy_toc_html = <<>>
  /\ real_toc_html = <<>>
  /\ tpc = "off"

\* no resolver at work
ResolverIdle ==
  /\ manifest_items = <<>>
  /\ images_by_path = <<>>
  /\ src_value = <<>>
  /\ data_uri = NoUri
  /\ content = NoText
  /\ styles = NoText
  /\ rpc = "idle"

window ==
  <<file_path, convert_button, select_button, progress_bar, worker_thread,
    workers, pending, app>>

vars ==
  <<input_path, output_path, settings, book, pc, progress, signals,
    items_to_process, toc_page_count, current_page, chapter_page_map,
    documents, i, renders, failed, warnings, output_file, window, resolver,
    startup, tocgen, first_run>>

jobInput == <<input_path, output_path, settings, book>>

\* no run of the job before this one
NoRun ==
  [ran |-> FALSE, renders |-> <<>>, items_to_process |-> <<>>,
   chapter_page_map |-> EmptyMap, data_uri |-> NoUri, total |-> 0]

\* the documents of the manifest, yielded in an order of their own
get_items_in_any_order(b) ==
  {m \in [1..Len(b.manifest) -> Range(b.manifest)] : Range(m) = Range(b.manifest)}

\* book.get_items_of_type(ebooklib.ITEM_DOCUMENT): the orders in which the
\* documents may be yielded; the items are kept in a list, so there is one
get_items_of_type(b) == {b.manifest}

\* what the HTML given to the renderer for a document is made of: the
\* chapter's content or the TOC's entries, the counter reset of its body,
\* and the page numbers the final TOC prints from the map when toc_numbers
\* is on
HtmlOf(doc, page_map) ==
  [text |-> IF doc.kind = "chapter" THEN "chapter" ELSE "toc",
   name |-> doc.name, reset |-> doc.reset,
   numbers |-> IF doc.kind = "toc_final" /\ settings.toc_numbers
               THEN page_map ELSE EmptyMap]

\* the renders of one run give one page count to one HTML
IsFunctionOfHtml(docs, page_map) ==
  \A a, b \in Range(docs) :
    HtmlOf(a, page_map) = HtmlOf(b, page_map) => a.pages = b.pages

\* HTML(string=...).render() of a renderer that gives the HTML of doc the
\* page count it gave the same HTML in the earlier run
Render(doc, page_map, earlier) ==
  \A d \in Range(earlier.renders) :
    HtmlOf(d, earlier.chapter_page_map) = HtmlOf(doc, page_map)
      => d.pages = doc.pages

epubLocals ==
  <<items_to_process, toc_page_count, current_page, chapter_page_map,
    documents, i>>

(***************************************************************************)
(* The state after ConversionWorker.__init__ (on_convert_file has built    *)
(* the settings and the output path from an accepted file).                *)
(***************************************************************************)
Init ==
  /\ input_path \in {p \in FilePaths : Accepted(p)}
  /\ output_path = OutputPathFor(input_path)
  /\ settings \in Settings
  /\ book \in IF EndsWith(input_path, DotEpub) THEN Books
              ELSE {[manifest |-> <<>>, spine |-> <<>>]}
  /\ pc = "run"
  /\ progress = <<>>
  /\ signals = <<>>
  /\ items_to_process = <<>>
  /\ toc_page_count = 0
  /\ current_page = 0
  /\ chapter_page_map = EmptyMap
  /\ documents = <<>>
  /\ i = 1
  /\ renders = <<>>
  /\ failed = None
  /\ warnings = 0
  /\ output_file = NoFile
  /\ file_path = input_path
  /\ convert_button = FALSE
  /\ select_button = FALSE
  /\ progress_bar = 0
  /\ worker_thread = 1
  /\ workers = <<NewWorker(input_path)>>
  /\ pending = <<>>
  /\ app = "running"
  /\ ResolverIdle
  /\ StartupOff
  /\ TocOff
  /\ first_run = NoRun

Emit(value) == progress' = Append(progress, value)

Raise(what) ==
  /\ pc' = "except"
  /\ failed' = what

\* run(): progress.emit(0) and the dispatch on the path's ending
Run ==
  /\ pc = "run"
  /\ Emit(0)
  /\ pc' = IF EndsWith(input_path, DotTxt) THEN "txt"
           ELSE IF EndsWith(input_path, DotEpub) THEN "epub"
           ELSE "emit_finished"
  /\ UNCHANGED <<window, resolver, startup, tocgen, first_run, jobInput, epubLocals, signals, renders, failed, warnings,
                 output_file>>

\* convert_txt_to_pdf up to the HTML: progress 10, read the file, 30, 60
TxtRead ==
  /\ pc = "txt"
  /\ \/ /\ progress' = progress \o <<10, 30, 60>>
        /\ pc' = "txt_write"
        /\ UNCHANGED failed
     \/ /\ Emit(10)
        /\ Raise("read")
  /\ UNCHANGED <<window, resolver, startup, tocgen, first_run, jobInput, epubLocals, signals, renders, warnings, output_file>>

\* convert_txt_to_pdf: HTML(...).write_pdf(output_path), progress 100
TxtWrite ==
  /\ pc = "txt_write"
  /\ \/ \E n \in PageCounts :
          LET doc == [kind |-> "txt", name |-> "txt", pages |-> n,
                      reset |-> CounterReset(settings,
                                             settings.toc_start_page - 1)]
          IN /\ renders' = Append(renders, doc)
             /\ output_file' = WritePdf(PagesOf(doc))
             /\ Emit(100)
             /\ pc' = "emit_finished"
             /\ UNCHANGED failed
     \/ /\ Raise("txt_write")
        /\ UNCHANGED <<renders, output_file, progress>>
  /\ UNCHANGED <<window, resolver, startup, tocgen, first_run, jobInput, epubLocals, signals, warnings>>

\* convert_epub_to_pdf: progress 5, read_epub, items_to_process
EpubRead ==
  /\ pc = "epub"
  /\ Emit(5)
  /\ \/ /\ images_by_path' = BuildIndex(<<>>, manifest_items)
        /\ \E docs \in get_items_of_type(book) :
             items_to_process' = ItemsToProcess([book EXCEPT !.manifest = docs])
        /\ pc' = "toc_estimate"
        /\ UNCHANGED failed
     \/ /\ Raise("read")
        /\ UNCHANGED <<images_by_path, items_to_process>>
  /\ UNCHANGED <<window, manifest_items, src_value, data_uri, content, styles,
                 rpc, startup, tocgen, first_run, jobInput, toc_page_count,
                 current_page, chapter_page_map, documents, i, signals,
                 renders, warnings, output_file>>

TocDoc(kind, n) ==
  [kind |-> kind, name |-> "toc", pages |-> n,
   reset |-> CounterReset(settings, settings.toc_start_page - 1)]

\* the dry run for the TOC size (when toc is on), then the pagination seed
\* and progress 10
TocEstimate ==
  /\ pc = "toc_estimate"
  /\ \/ /\ settings.toc
        /\ \E n \in TocPageCounts :
             /\ Render(TocDoc("toc_estimate", n), EmptyMap, first_run)
             /\ renders' = Append(renders, TocDoc("toc_estimate", n))
             /\ toc_page_count' = n
             /\ current_page' = Baseline(n, settings.toc_start_page)
        /\ Emit(10)
        /\ pc' = "chapters"
        /\ UNCHANGED failed
     \/ /\ settings.toc
        /\ Raise("toc_estimate")
        /\ UNCHANGED <<renders, toc_page_count, current_page, progress>>
     \/ /\ ~settings.toc
        /\ current_page' = Baseline(toc_page_count, settings.toc_start_page)
        /\ Emit(10)
        /\ pc' = "chapters"
        /\ UNCHANGED <<renders, toc_page_count, failed>>
  /\ UNCHANGED <<window, resolver, startup, tocgen, first_run, jobInput, items_to_process, chapter_page_map, documents, i,
                 signals, warnings, output_file>>

\* the loop over items_to_process: "if not doc_item: continue"
SkipItem ==
  /\ pc = "chapters"
  /\ i <= Len(items_to_process)
  /\ items_to_process[i] = None
  /\ i' = i + 1
  /\ UNCHANGED <<window, resolver, startup, tocgen, first_run, jobInput, items_to_process, toc_page_count, current_page,
                 chapter_page_map, documents, pc, progress, signals, renders,
                 failed, warnings, output_file>>

\* one pass of the loop's body for a resolved item
RenderChapter ==
  /\ pc = "chapters"
  /\ i <= Len(items_to_process)
  /\ items_to_process[i] # None
  /\ chapter_page_map' =
       MapPut(chapter_page_map, items_to_process[i], ChapterStart(current_page))
  /\ Emit(Percent(i, Len(items_to_process)))
  /\ \/ \E n \in PageCounts :
          LET doc == [kind |-> "chapter", name |-> items_to_process[i],
                      pages |-> n,
                      reset |-> CounterReset(settings, current_page)]
          IN /\ Render(doc, chapter_page_map', first_run)
             /\ renders' = Append(renders, doc)
             /\ documents' = Append(documents, doc)
             /\ current_page' = Advance(current_page, n)
             /\ i' = i + 1
             /\ UNCHANGED <<pc, failed>>
     \/ /\ Raise("chapter")
        /\ UNCHANGED <<renders, documents, current_page, i>>
  /\ data_uri' = data_uri_for_src(images_by_path, src_value)
  /\ UNCHANGED <<window, manifest_items, images_by_path, src_value, content,
                 styles, rpc, startup, tocgen, first_run, jobInput,
                 items_to_process, toc_page_count, signals, warnings,
                 output_file>>

\* after the loop: the real TOC (when toc is on), rendered once and put first
RealToc ==
  /\ pc = "chapters"
  /\ i > Len(items_to_process)
  /\ \/ /\ settings.toc
        /\ \E n \in TocPageCounts :
             /\ Render(TocDoc("toc_final", n), chapter_page_map, first_run)
             /\ renders' = Append(renders, TocDoc("toc_final", n))
             /\ documents' = InsertToc(documents, TocDoc("toc_final", n))
             /\ warnings' = IF TocSizeChanged(n, toc_page_count)
                            THEN warnings + 1 ELSE warnings
        /\ pc' = "merge"
        /\ UNCHANGED failed
     \/ /\ settings.toc
        /\ Raise("toc_final")
        /\ UNCHANGED <<renders, documents, warnings>>
     \/ /\ ~settings.toc
        /\ pc' = "merge"
        /\ UNCHANGED <<renders, documents, warnings, failed>>
  /\ UNCHANGED <<window, resolver, startup, tocgen, first_run, jobInput, items_to_process, toc_page_count, current_page,
                 chapter_page_map, i, progress, signals, output_file>>

\* progress 95, all_pages, documents[0].copy(all_pages).write_pdf, progress 100
Merge ==
  /\ pc = "merge"
  /\ \/ /\ documents # <<>>
        /\ output_file' = WritePdf(AllPages(documents))
        /\ progress' = progress \o <<95, 100>>
        /\ pc' = "emit_finished"
        /\ UNCHANGED failed
     \/ /\ documents = <<>>
        /\ Emit(95)
        /\ Raise("index")
        /\ UNCHANGED output_file
     \/ /\ documents # <<>>
        /\ Emit(95)
        /\ Raise("write")
        /\ UNCHANGED output_file
  /\ UNCHANGED <<window, resolver, startup, tocgen, first_run, jobInput, epubLocals, signals, renders, warnings>>

\* run(): self.finished.emit(self.output_path)
EmitFinished ==
  /\ pc = "emit_finished"
  /\ signals' = Append(signals, <<"finished", output_path>>)
  /\ pc' = "done"
  /\ UNCHANGED <<window, resolver, startup, tocgen, first_run, jobInput, epubLocals, progress, renders, failed, warnings,
                 output_file>>

\* f"An error occurred: {e}"
ErrorMessage(e) == <<"An error occurred: ", e>>

\* an error handler that falls through to the success signal
EmitErrorThenFinished ==
  /\ pc = "except"
  /\ signals' = Append(signals, <<"error", ErrorMessage(failed)>>)
  /\ pc' = "emit_finished"
  /\ UNCHANGED <<window, resolver, startup, tocgen, first_run, jobInput, epubLocals, progress, renders, failed, warnings,
                 output_file>>

\* run(): except Exception: self.error.emit(...)
EmitError ==
  /\ pc = "except"
  /\ signals' = Append(signals, <<"error", ErrorMessage(failed)>>)
  /\ pc' = "done"
  /\ UNCHANGED <<window, resolver, startup, tocgen, first_run, jobInput, epubLocals, progress, renders, failed, warnings,
                 output_file>>

Next ==
  \/ Run
  \/ TxtRead
  \/ TxtWrite
  \/ EpubRead
  \/ TocEstimate
  \/ SkipItem
  \/ RenderChapter
  \/ RealToc
  \/ Merge
  \/ EmitFinished
  \/ EmitError

Spec == Init /\ [][Next]_vars

(***************************************************************************)
(* Two runs of one EPUB job: on_convert_file builds a second                *)
(* ConversionWorker for the same file and the same settings once the first *)
(* has finished, and the renderer gives an HTML it has rendered in the     *)
(* first run the page count it gave it then.                               *)
(***************************************************************************)
ItemOf(c) == CHOOSE item \in ManifestItems : item.content = c

\* two images of one file name, in either manifest order
TwoRunsManifests ==
  {<<ItemOf("A"), ItemOf("C")>>, <<ItemOf("C"), ItemOf("A")>>}

\* a reference no path of the index equals, resolved by its file name
TwoRunsReference == ImgDirCapital \o Slash \o CoverJpg

TwoRunsInit ==
  /\ input_path \in {p \in FilePaths : Accepted(p) /\ EndsWith(p, DotEpub)}
  /\ output_path = OutputPathFor(input_path)
  /\ settings \in {s \in Settings : s.toc_start_page = MaxStartPage}
  /\ book \in Books
  /\ pc = "run"
  /\ progress = <<>>
  /\ signals = <<>>
  /\ items_to_process = <<>>
  /\ toc_page_count = 0
  /\ current_page = 0
  /\ chapter_page_map = EmptyMap
  /\ documents = <<>>
  /\ i = 1
  /\ renders = <<>>
  /\ failed = None
  /\ warnings = 0
  /\ output_file = NoFile
  /\ file_path = input_path
  /\ convert_button = FALSE
  /\ select_button = FALSE
  /\ progress_bar = 0
  /\ worker_thread = 1
  /\ workers = <<NewWorker(input_path)>>
  /\ pending = <<>>
  /\ app = "running"
  /\ manifest_items \in TwoRunsManifests
  /\ images_by_path = <<>>
  /\ src_value = TwoRunsReference
  /\ data_uri = NoUri
  /\ content = NoText
  /\ styles = NoText
  /\ rpc = "idle"
  /\ StartupOff
  /\ TocOff
  /\ first_run = NoRun

\* the first run has written its PDF; the second worker starts on the same
\* input_path, output_path and settings, with locals of its own
StartSecondRun ==
  /\ pc = "done"
  /\ failed = None
  /\ ~first_run.ran
  /\ IsFunctionOfHtml(renders, chapter_page_map)
  /\ first_run' =
       [ran |-> TRUE, renders |-> renders,
        items_to_process |-> items_to_process,
        chapter_page_map |-> chapter_page_map, data_uri |-> data_uri,
        total |-> Len(output_file.pages)]
  /\ pc' = "run"
  /\ progress' = <<>>
  /\ signals' = <<>>
  /\ items_to_process' = <<>>
  /\ toc_page_count' = 0
  /\ current_page' = 0
  /\ chapter_page_map' = EmptyMap
  /\ documents' = <<>>
  /\ i' = 1
  /\ renders' = <<>>
  /\ warnings' = 0
  /\ images_by_path' = <<>>
  /\ data_uri' = NoUri
  /\ UNCHANGED <<jobInput, failed, output_file, window, manifest_items,
                 src_value, content, styles, rpc, startup, tocgen>>

TwoRunsNext ==
  \/ Run
  \/ EpubRead
  \/ TocEstimate
  \/ SkipItem
  \/ RenderChapter
  \/ RealToc
  \/ Merge
  \/ EmitFinished
  \/ EmitError
  \/ StartSecondRun

TwoRunsSpec == TwoRunsInit /\ [][TwoRunsNext]_vars

(***************************************************************************)
(* The window.  The state after FileConverter.__init__: no file, the       *)
(* convert button disabled, no worker.  A worker thread is seen through    *)
(* the terminal signal it queues for the window's thread.                  *)
(***************************************************************************)
job ==
  <<input_path, output_path, settings, book, pc, progress, signals,
    items_to_process, toc_page_count, current_page, chapter_page_map,
    documents, i, renders, failed, warnings, output_file>>

GuiInit ==
  /\ file_path = NoPath
  /\ convert_button = FALSE
  /\ select_button = TRUE
  /\ progress_bar = 0
  /\ worker_thread = 0
  /\ workers = <<>>
  /\ pending = <<>>
  /\ app = "running"
  /\ ResolverIdle
  /\ StartupOff
  /\ TocOff
  /\ first_run = NoRun
  /\ input_path = NoPath
  /\ output_path = NoPath
  /\ settings = [page_numbers |-> TRUE, toc |-> FALSE, toc_numbers |-> FALSE,
                 toc_start_page |-> 1]
  /\ book = [manifest |-> <<>>, spine |-> <<>>]
  /\ pc = "idle"
  /\ progress = <<>>
  /\ signals = <<>>
  /\ items_to_process = <<>>
  /\ toc_page_count = 0
  /\ current_page = 0
  /\ chapter_page_map = EmptyMap
  /\ documents = <<>>
  /\ i = 1
  /\ renders = <<>>
  /\ failed = None
  /\ warnings = 0
  /\ output_file = NoFile

\* on_select_file: the dialog returns a file of the filter, or "" on cancel
on_select_file ==
  /\ app = "running"
  /\ select_button
  /\ \E chosen \in {p \in FilePaths : Accepted(p)} \cup {NoPath} :
       IF chosen # NoPath
       THEN /\ file_path' = chosen
            /\ convert_button' = TRUE
       ELSE UNCHANGED <<file_path, convert_button>>
  /\ UNCHANGED <<select_button, progress_bar, worker_thread, workers, pending,
                 app, job, resolver,
                 startup, tocgen, first_run>>

\* dropEvent: the window accepts drops whatever the state of its buttons
dropEvent ==
  /\ app = "running"
  /\ \E dropped \in FilePaths :
       IF Accepted(dropped)
       THEN /\ file_path' = dropped
            /\ convert_button' = TRUE
       ELSE UNCHANGED <<file_path, convert_button>>
  /\ UNCHANGED <<select_button, progress_bar, worker_thread, workers, pending,
                 app, job, resolver,
                 startup, tocgen, first_run>>

\* a worker whose terminal signal the window has not handled yet
InFlight(w) == workers[w].st # "handled"

JobsInFlight == {w \in 1..Len(workers) : InFlight(w)}

\* on_convert_file (a click on the enabled convert button).  Rebinding
\* self.worker_thread drops the last reference to a QThread that is still
\* running: Qt aborts the process when that thread object is destroyed, or
\* the object outlives the rebinding and the new thread starts beside it.
on_convert_file ==
  /\ app = "running"
  /\ convert_button
  /\ Len(workers) < MaxJobs
  /\ IF file_path # NoPath
     THEN /\ convert_button' = FALSE
          /\ select_button' = FALSE
          /\ \/ /\ workers' = Append(workers, NewWorker(file_path))
                /\ worker_thread' = Len(workers) + 1
                /\ UNCHANGED app
             \/ /\ worker_thread # 0
                /\ app' = "aborted"
                /\ UNCHANGED <<workers, worker_thread>>
     ELSE UNCHANGED <<convert_button, select_button, workers, worker_thread,
                      app>>
  /\ UNCHANGED <<file_path, progress_bar, pending, job, resolver,
                 startup, tocgen, first_run>>

\* worker.progress -> progress_bar.setValue, for a value a job emits
ProgressValues == {0, 10, 100}

WorkerProgress(w) ==
  /\ app = "running"
  /\ workers[w].st = "running"
  /\ \E value \in ProgressValues : progress_bar' = value
  /\ UNCHANGED <<file_path, convert_button, select_button, worker_thread,
                 workers, pending, app, job, resolver,
                 startup, tocgen, first_run>>

\* ConversionWorker.run on its thread, to its terminal signal: finished, or
\* error when the conversion it dispatched to raised
WorkerRun(w) ==
  /\ app = "running"
  /\ workers[w].st = "running"
  /\ \E signal \in {"finished", "error"} :
       /\ signal = "error" =>
            \/ EndsWith(workers[w].input_path, DotTxt)
            \/ EndsWith(workers[w].input_path, DotEpub)
       /\ pending' = Append(pending, [worker |-> w, signal |-> signal])
  /\ workers' = [workers EXCEPT ![w].st = "emitted"]
  /\ UNCHANGED <<file_path, convert_button, select_button, progress_bar,
                 worker_thread, app, job, resolver,
                 startup, tocgen, first_run>>

\* worker_thread.quit(); worker_thread.wait() returns once the thread's
\* worker has left run()
ThreadCanFinish == worker_thread # 0 => workers[worker_thread].st # "running"

\* on_worker_finished, for the signal at the head of the queue
on_worker_finished ==
  /\ app = "running"
  /\ pending # <<>>
  /\ Head(pending).signal = "finished"
  /\ ThreadCanFinish
  /\ convert_button' = TRUE
  /\ select_button' = TRUE
  /\ progress_bar' = 100
  /\ worker_thread' = 0
  /\ workers' = [workers EXCEPT ![Head(pending).worker].st = "handled"]
  /\ pending' = Tail(pending)
  /\ UNCHANGED <<file_path, app, job, resolver,
                 startup, tocgen, first_run>>

\* on_worker_error, for the signal at the head of the queue
on_worker_error ==
  /\ app = "running"
  /\ pending # <<>>
  /\ Head(pending).signal = "error"
  /\ ThreadCanFinish
  /\ convert_button' = TRUE
  /\ select_button' = TRUE
  /\ worker_thread' = 0
  /\ workers' = [workers EXCEPT ![Head(pending).worker].st = "handled"]
  /\ pending' = Tail(pending)
  /\ UNCHANGED <<file_path, progress_bar, app, job, resolver,
                 startup, tocgen, first_run>>

GuiNext ==
  \/ on_select_file
  \/ dropEvent
  \/ on_convert_file
  \/ \E w \in 1..Len(workers) : WorkerProgress(w)
  \/ \E w \in 1..Len(workers) : WorkerRun(w)
  \/ on_worker_finished
  \/ on_worker_error

GuiSpec == GuiInit /\ [][GuiNext]_vars

\* a started thread runs its worker to the end of run(), and the window's
\* event loop delivers the queued signals to their slots
GuiFairness ==
  /\ \A w \in 1..MaxJobs : WF_vars(w \in 1..Len(workers) /\ WorkerRun(w))
  /\ WF_vars(on_worker_finished)
  /\ WF_vars(on_worker_error)

GuiLiveSpec == GuiSpec /\ GuiFairness

(***************************************************************************)
(* The resolver on its own: the index is built from a manifest, then       *)
(* references are resolved against it.                                     *)
(***************************************************************************)
ResolverInit ==
  /\ manifest_items \in SeqsUpTo(ManifestItems, MaxItems)
  /\ images_by_path = <<>>
  /\ src_value = <<>>
  /\ data_uri = NoUri
  /\ content = NoText
  /\ styles = NoText
  /\ rpc = "index"
  /\ StartupOff
  /\ TocOff
  /\ first_run = NoRun
  /\ file_path = NoPath
  /\ convert_button = FALSE
  /\ select_button = TRUE
  /\ progress_bar = 0
  /\ worker_thread = 0
  /\ workers = <<>>
  /\ pending = <<>>
  /\ app = "running"
  /\ input_path = NoPath
  /\ output_path = NoPath
  /\ settings = [page_numbers |-> TRUE, toc |-> FALSE, toc_numbers |-> FALSE,
                 toc_start_page |-> 1]
  /\ book = [manifest |-> <<>>, spine |-> <<>>]
  /\ pc = "idle"
  /\ progress = <<>>
  /\ signals = <<>>
  /\ items_to_process = <<>>
  /\ toc_page_count = 0
  /\ current_page = 0
  /\ chapter_page_map = EmptyMap
  /\ documents = <<>>
  /\ i = 1
  /\ renders = <<>>
  /\ failed = None
  /\ warnings = 0
  /\ output_file = NoFile

\* the loop over book.get_items() that fills images_by_path
CollectImages ==
  /\ rpc = "index"
  /\ images_by_path' = BuildIndex(<<>>, manifest_items)
  /\ rpc' = "ready"
  /\ UNCHANGED <<manifest_items, src_value, data_uri, content, styles, window,
                 job, startup, tocgen, first_run>>

\* a call of _data_uri_for_src(src_value) from replace_attr / replace_css_url
ResolveReference ==
  /\ rpc = "ready"
  /\ \E src \in References :
       /\ src_value' = src
       /\ data_uri' = data_uri_for_src(images_by_path, src)
  /\ rpc' = "resolved"
  /\ UNCHANGED <<manifest_items, images_by_path, content, styles, window, job, startup, tocgen, first_run>>

\* the two re.sub calls of the chapter loop on one chapter's content
InlineChapter ==
  /\ rpc = "ready"
  /\ \E parts \in AttributeParts \cup CssParts :
       content' = [parts |-> parts, before |-> TextOf(parts),
                   after |-> InlineContent(images_by_path, TextOf(parts))]
  /\ rpc' = "inlined"
  /\ UNCHANGED <<manifest_items, images_by_path, src_value, data_uri, styles,
                 window, job, startup, tocgen, first_run>>

\* the re.sub call on the concatenated stylesheets
InlineStylesheet ==
  /\ rpc = "ready"
  /\ \E parts \in CssParts :
       styles' = [parts |-> parts, before |-> TextOf(parts),
                  after |-> InlineStyles(images_by_path, TextOf(parts))]
  /\ rpc' = "styled"
  /\ UNCHANGED <<manifest_items, images_by_path, src_value, data_uri, content,
                 window, job, startup, tocgen, first_run>>

ResolverNext ==
  \/ CollectImages
  \/ ResolveReference
  \/ InlineChapter
  \/ InlineStylesheet

ResolverSpec == ResolverInit /\ [][ResolverNext]_vars

(***************************************************************************)
(* Startup: FileConverter.__init__ reads config.json and sets the widgets  *)
(* of the settings group; the user's changes are written back.             *)
(***************************************************************************)
\* no job and no file chosen
JobIdle ==
  /\ input_path = NoPath
  /\ output_path = NoPath
  /\ settings = [page_numbers |-> TRUE, toc |-> FALSE, toc_numbers |-> FALSE,
                 toc_start_page |-> 1]
  /\ book = [manifest |-> <<>>, spine |-> <<>>]
  /\ pc = "idle"
  /\ progress = <<>>
  /\ signals = <<>>
  /\ items_to_process = <<>>
  /\ toc_page_count = 0
  /\ current_page = 0
  /\ chapter_page_map = EmptyMap
  /\ documents = <<>>
  /\ i = 1
  /\ renders = <<>>
  /\ failed = None
  /\ warnings = 0
  /\ output_file = NoFile

WindowIdle ==
  /\ file_path = NoPath
  /\ convert_button = FALSE
  /\ select_button = TRUE
  /\ progress_bar = 0
  /\ worker_thread = 0
  /\ workers = <<>>
  /\ pending = <<>>
  /\ app = "running"

StartupInit ==
  /\ config_file \in ConfigFiles
  /\ current_settings = DefaultSettings
  /\ page_numbers_check = FALSE
  /\ toc_check = FALSE
  /\ toc_numbers_check = FALSE
  /\ toc_start_page_spin = 1
  /\ spc = "load"
  /\ JobIdle
  /\ WindowIdle
  /\ ResolverIdle
  /\ TocOff
  /\ first_run = NoRun

\* self.current_settings = self.load_settings()
LoadSettings ==
  /\ spc = "load"
  /\ current_settings' = load_settings(config_file)
  /\ spc' = "widgets"
  /\ UNCHANGED <<config_file, page_numbers_check, toc_check, toc_numbers_check,
                 toc_start_page_spin, window, job, resolver,
                 tocgen, first_run>>

\* the four setChecked / setValue calls of __init__; a value that has no get
\* raises and the window is never shown
BuildSettingsGroup ==
  /\ spc = "widgets"
  /\ IF /\ CanGet(current_settings)
        /\ Get(current_settings, "page_numbers") \in JsonBooleans
        /\ Get(current_settings, "toc") \in JsonBooleans
        /\ Get(current_settings, "toc_numbers") \in JsonBooleans
        /\ Get(current_settings, "toc_start_page") \in JsonNumbers
     THEN /\ page_numbers_check' =
               BoolOf(Get(current_settings, "page_numbers"))
          /\ toc_check' = BoolOf(Get(current_settings, "toc"))
          /\ toc_numbers_check' = BoolOf(Get(current_settings, "toc_numbers"))
          /\ toc_start_page_spin' =
               IntOf(Get(current_settings, "toc_start_page"))
          /\ spc' = "shown"
     ELSE /\ spc' = "aborted"
          /\ UNCHANGED <<page_numbers_check, toc_check, toc_numbers_check,
                         toc_start_page_spin>>
  /\ UNCHANGED <<config_file, current_settings, window, job, resolver,
                 tocgen, first_run>>

TokenOfBool(b) == IF b THEN "true" ELSE "false"
TokenOfInt(n) == IF n = 3 THEN "3" ELSE "1"

\* what save_settings writes for the widgets' values; a failed write is
\* logged and leaves the file as it was
Saved(file, page_numbers, toc, toc_numbers, toc_start_page) ==
  { file,
    Loaded("object", [page_numbers |-> TokenOfBool(page_numbers),
                      toc |-> TokenOfBool(toc),
                      toc_numbers |-> TokenOfBool(toc_numbers),
                      toc_start_page |-> TokenOfInt(toc_start_page)]) }

\* page_numbers_check.stateChanged -> save_settings
save_settings ==
  /\ spc \in {"shown", "used"}
  /\ page_numbers_check' = ~page_numbers_check
  /\ config_file' \in Saved(config_file, page_numbers_check', toc_check,
                            toc_numbers_check, toc_start_page_spin)
  /\ spc' = "used"
  /\ UNCHANGED <<current_settings, toc_check, toc_numbers_check,
                 toc_start_page_spin, window, job, resolver,
                 tocgen, first_run>>

\* toc_check.stateChanged -> toggle_toc_options
toggle_toc_options ==
  /\ spc \in {"shown", "used"}
  /\ toc_check' = ~toc_check
  /\ config_file' \in Saved(config_file, page_numbers_check, toc_check',
                            toc_numbers_check, toc_start_page_spin)
  /\ spc' = "used"
  /\ UNCHANGED <<current_settings, page_numbers_check, toc_numbers_check,
                 toc_start_page_spin, window, job, resolver,
                 tocgen, first_run>>

StartupNext ==
  \/ LoadSettings
  \/ BuildSettingsGroup
  \/ save_settings
  \/ toggle_toc_options

StartupSpec == StartupInit /\ [][StartupNext]_vars

(***************************************************************************)
(* The two TOC documents of a job: the one of the estimate, generated      *)
(* before any chapter is rendered, and the final one, generated from the   *)
(* map the chapter loop has filled.                                        *)
(***************************************************************************)
TocInit ==
  /\ book_toc \in SeqsUpTo(TocItems, MaxTocItems)
  /\ dummy_toc_html = <<>>
  /\ real_toc_html = <<>>
  /\ tpc = "estimate"
  /\ settings \in [page_numbers : {TRUE}, toc : {TRUE}, toc_numbers : BOOLEAN,
                   toc_start_page : {1}]
  /\ chapter_page_map = EmptyMap
  /\ input_path = NoPath
  /\ output_path = NoPath
  /\ book = [manifest |-> <<>>, spine |-> <<>>]
  /\ pc = "idle"
  /\ progress = <<>>
  /\ signals = <<>>
  /\ items_to_process = <<>>
  /\ toc_page_count = 0
  /\ current_page = 0
  /\ documents = <<>>
  /\ i = 1
  /\ renders = <<>>
  /\ failed = None
  /\ warnings = 0
  /\ output_file = NoFile
  /\ WindowIdle
  /\ ResolverIdle
  /\ StartupOff
  /\ first_run = NoRun

\* dummy_toc_html = generate_toc_html(book)
GenerateDummyToc ==
  /\ tpc = "estimate"
  /\ dummy_toc_html' =
       generate_toc_html(book_toc, settings.toc_numbers, NoPageMap)
  /\ tpc' = "chapters"
  /\ UNCHANGED <<book_toc, real_toc_html, window, job, resolver, startup,
                 first_run>>

\* the chapter loop, for what it leaves in chapter_page_map
FillPageMap ==
  /\ tpc = "chapters"
  /\ chapter_page_map' \in PageMaps
  /\ tpc' = "final"
  /\ UNCHANGED <<tocgen_texts, window, jobInput, items_to_process,
                 toc_page_count, current_page, documents, i, progress,
                 signals, renders, failed, warnings, output_file, pc,
                 resolver, startup, first_run>>

\* real_toc_html = generate_toc_html(book, chapter_page_map)
GenerateRealToc ==
  /\ tpc = "final"
  /\ real_toc_html' =
       generate_toc_html(book_toc, settings.toc_numbers,
                         PageMap(chapter_page_map))
  /\ tpc' = "made"
  /\ UNCHANGED <<book_toc, dummy_toc_html, window, job, resolver, startup,
                 first_run>>

TocNext ==
  \/ GenerateDummyToc
  \/ FillPageMap
  \/ GenerateRealToc

TocSpec == TocInit /\ [][TocNext]_vars

(***************************************************************************)
(* What the properties below read off a job.                               *)
(***************************************************************************)
IsEpubJob == EndsWith(input_path, DotEpub)

RendersOf(kind) == SelectSeq(renders, LAMBDA d : d.kind = kind)

ChapterRenders == RendersOf("chapter")

EstimatedTocLength ==
  IF RendersOf("toc_estimate") = <<>> THEN 0
  ELSE RendersOf("toc_estimate")[1].pages

FinalTocRendered == RendersOf("toc_final") # <<>>

FinalTocLength ==
  IF FinalTocRendered THEN RendersOf("toc_final")[1].pages ELSE 0

RECURSIVE SumPages(_)
SumPages(docs) ==
  IF docs = <<>> THEN 0 ELSE Head(docs).pages + SumPages(Tail(docs))

\* the pages of the chapters rendered before the j-th of the chapters cr
PagesBefore(cr, j) == SumPages(SubSeq(cr, 1, j - 1))

\* no item of the same name has started after the j-th of the chapters cr
NotStartedAgain(cr, j) ==
  /\ \A k \in (j + 1)..Len(cr) : cr[k].name # cr[j].name
  /\ ~(failed = "chapter" /\ items_to_process[i] = cr[j].name)

\* the positions in the written file of the chapters' first pages
ChapterFirsts ==
  {p \in 1..Len(output_file.pages) :
     output_file.pages[p].kind = "chapter" /\ output_file.pages[p].k = 1}

\* the position in the written file of the j-th chapter's first page
FirstPageOf(firsts, j) ==
  CHOOSE p \in firsts : Cardinality({q \in firsts : q <= p}) = j

ResolvedItems == SelectSeq(items_to_process, LAMBDA x : x # None)

IsPrefix(a, b) == Len(a) <= Len(b) /\ SubSeq(b, 1, Len(a)) = a

RenderTrace == [k \in 1..Len(renders) |-> <<renders[k].kind, renders[k].name>>]

ExpectedTocTrace ==
  <<<<"toc_estimate", "toc">>>>
    \o [k \in 1..Len(ResolvedItems) |-> <<"chapter", ResolvedItems[k]>>]
    \o <<<<"toc_final", "toc">>>>

(***************************************************************************)
(* C1 as stated: the starting page recorded in ChapterPageMap for the      *)
(* chapter rendered last equals baseline + the pages of the chapters       *)
(* rendered before it, baseline = estimated TOC length + toc_start_page - 1*)
(***************************************************************************)
C1_StartIsBaselinePlusSum ==
  (IsEpubJob /\ failed # "chapter") =>
    LET cr == ChapterRenders
        j == Len(cr)
    IN cr # <<>> =>
         chapter_page_map[cr[j].name] =
           (EstimatedTocLength + settings.toc_start_page - 1)
             + PagesBefore(cr, j)

(***************************************************************************)
(* C1 amended: the starting page recorded in ChapterPageMap when a chapter *)
(* starts equals baseline + 1 + the pages of the chapters rendered before  *)
(* it; the entry keeps that value until an item of the same name starts    *)
(* again.  A chapter whose render raised has its entry recorded too.       *)
(***************************************************************************)
C1_StartIsBaselinePlusOnePlusSum ==
  IsEpubJob =>
    LET cr == ChapterRenders
        baseline == EstimatedTocLength + settings.toc_start_page - 1
    IN /\ \A j \in 1..Len(cr) :
            NotStartedAgain(cr, j) =>
              chapter_page_map[cr[j].name] = baseline + 1 + PagesBefore(cr, j)
       /\ failed = "chapter" =>
            chapter_page_map[items_to_process[i]] = baseline + 1 + SumPages(cr)

C1_Witness ==
  /\ IsEpubJob
  /\ settings.toc
  /\ EstimatedTocLength = 2
  /\ Len(ChapterRenders) = 2
  /\ ChapterRenders[1].name # ChapterRenders[2].name
  /\ ChapterRenders[1].pages = 4
  /\ chapter_page_map[ChapterRenders[2].name] = settings.toc_start_page + 6

(***************************************************************************)
(* C2 as stated: with toc enabled, for every rendered chapter, its         *)
(* ChapterPageMap value minus its actual logical starting page in the      *)
(* written file (toc_start_page + the pages before its first page) equals  *)
(* estimated TOC length - final TOC length.                                *)
(***************************************************************************)
C2_TocReferenceOffByDelta ==
  (IsEpubJob /\ settings.toc /\ output_file.exists) =>
    LET cr == ChapterRenders
        firsts == ChapterFirsts
        delta == EstimatedTocLength - FinalTocLength
    IN \A j \in 1..Len(cr) :
         chapter_page_map[cr[j].name]
             - (settings.toc_start_page + (FirstPageOf(firsts, j) - 1))
           = delta

(***************************************************************************)
(* C2 amended: the same, for every rendered chapter that is not rendered   *)
(* again later in the job (the map keeps one entry per name, that of the   *)
(* last rendering).                                                        *)
(***************************************************************************)
C2_TocReferenceOffByDeltaForLastRendering ==
  (IsEpubJob /\ settings.toc /\ output_file.exists) =>
    LET cr == ChapterRenders
        firsts == ChapterFirsts
        delta == EstimatedTocLength - FinalTocLength
    IN \A j \in 1..Len(cr) :
         NotStartedAgain(cr, j) =>
           chapter_page_map[cr[j].name]
               - (settings.toc_start_page + (FirstPageOf(firsts, j) - 1))
             = delta

C2_Witness ==
  /\ IsEpubJob
  /\ settings.toc
  /\ output_file.exists
  /\ Len(ChapterRenders) = 2
  /\ ChapterRenders[1].name # ChapterRenders[2].name
  /\ EstimatedTocLength = 1
  /\ FinalTocLength = 2
  /\ chapter_page_map[ChapterRenders[2].name]
       = settings.toc_start_page + (FirstPageOf(ChapterFirsts, 2) - 1) - 1

(***************************************************************************)
(* C3: with toc enabled the renderer is called for the TOC estimate, then  *)
(* for each resolved item once in order, then for the final TOC, and never *)
(* again; a job in which nothing raised ends with finished and a written   *)
(* file; a warning is logged exactly when the final TOC length differs     *)
(* from the estimate.                                                      *)
(***************************************************************************)
C3_OneEstimateChaptersOnceOneFinal ==
  (IsEpubJob /\ settings.toc) =>
    LET expected == ExpectedTocTrace
        trace == RenderTrace
    IN /\ IsPrefix(trace, expected)
       /\ (pc = "done" /\ failed = None) =>
            /\ trace = expected
            /\ signals = <<<<"finished", output_path>>>>
            /\ output_file.exists
       /\ warnings =
            IF FinalTocRendered /\ FinalTocLength # EstimatedTocLength
            THEN 1 ELSE 0

C3_Witness ==
  /\ IsEpubJob
  /\ settings.toc
  /\ pc = "done"
  /\ signals = <<<<"finished", output_path>>>>
  /\ Len(ChapterRenders) = 3
  /\ EstimatedTocLength = 2
  /\ FinalTocLength = 1
  /\ warnings = 1

(***************************************************************************)
(* C4: the written file holds the final TOC's pages first (with toc        *)
(* enabled), then every rendered chapter's pages in rendering order; its   *)
(* page count is final TOC length + the sum of the chapters' page counts.  *)
(***************************************************************************)
C4_OutputIsTocThenChapters ==
  (IsEpubJob /\ output_file.exists) =>
    LET cr == ChapterRenders
        toc_length == FinalTocLength
        out == output_file.pages
    IN /\ settings.toc <=> FinalTocRendered
       /\ Len(out) = toc_length + SumPages(cr)
       /\ \A p \in 1..toc_length : out[p].kind = "toc_final" /\ out[p].k = p
       /\ \A j \in 1..Len(cr) :
            LET before == toc_length + PagesBefore(cr, j)
            IN \A k \in 1..cr[j].pages :
                 /\ out[before + k].kind = "chapter"
                 /\ out[before + k].name = cr[j].name
                 /\ out[before + k].k = k

C4_Witness ==
  /\ IsEpubJob
  /\ output_file.exists
  /\ settings.toc
  /\ settings.toc_numbers
  /\ settings.toc_start_page = 1
  /\ EstimatedTocLength = 1
  /\ FinalTocLength = 1
  /\ Len(ChapterRenders) = 2
  /\ ChapterRenders[1].pages = 2
  /\ ChapterRenders[2].pages = 4
  /\ chapter_page_map[ChapterRenders[1].name] = 2
  /\ chapter_page_map[ChapterRenders[2].name] = 4
  /\ Len(output_file.pages) = 7

(***************************************************************************)
(* C5 as stated: with toc disabled no TOC is rendered, the first chapter's *)
(* ChapterPageMap entry is toc_start_page and, with page numbers on, its   *)
(* k-th page prints footer toc_start_page + k - 1.                         *)
(***************************************************************************)
FirstChapterFooters(first) ==
  settings.page_numbers =>
    \A k \in 1..first.pages :
      /\ Footer(first, k) = settings.toc_start_page + k - 1
      /\ output_file.exists =>
           output_file.pages[k].footer = settings.toc_start_page + k - 1

C5_NoTocFirstChapterAtStartPage ==
  (IsEpubJob /\ ~settings.toc) =>
    LET cr == ChapterRenders
    IN /\ \A k \in 1..Len(renders) : renders[k].kind = "chapter"
       /\ cr # <<>> =>
            /\ chapter_page_map[cr[1].name] = settings.toc_start_page
            /\ FirstChapterFooters(cr[1])

(***************************************************************************)
(* C5 amended: the same, the ChapterPageMap entry being toc_start_page as  *)
(* long as no item of the first chapter's name has started again.          *)
(***************************************************************************)
C5_NoTocFirstChapterAtStartPageUntilRestarted ==
  (IsEpubJob /\ ~settings.toc) =>
    LET cr == ChapterRenders
    IN /\ \A k \in 1..Len(renders) : renders[k].kind = "chapter"
       /\ cr # <<>> =>
            /\ NotStartedAgain(cr, 1) =>
                 chapter_page_map[cr[1].name] = settings.toc_start_page
            /\ FirstChapterFooters(cr[1])

C5_Witness ==
  /\ IsEpubJob
  /\ ~settings.toc
  /\ settings.page_numbers
  /\ settings.toc_start_page = 5
  /\ Len(ChapterRenders) = 1
  /\ ChapterRenders[1].pages = 3
  /\ output_file.exists
  /\ [k \in 1..3 |-> output_file.pages[k].footer] = <<5, 6, 7>>
  /\ chapter_page_map[ChapterRenders[1].name] = 5

(***************************************************************************)
(* C6: a job of convert_epub_to_pdf in which no chapter was rendered ends  *)
(* with the error signal and writes no file, whatever the toc setting.     *)
(***************************************************************************)
C6_NoChapterMeansFailure ==
  (IsEpubJob /\ pc = "done" /\ ChapterRenders = <<>>) =>
    /\ \A k \in 1..Len(signals) : signals[k][1] = "error"
    /\ ~output_file.exists

(***************************************************************************)
(* C7: at most one conversion job is in flight at any time: from a job's   *)
(* start until its finished or error signal has been handled, no user      *)
(* event can start a second job (on_convert_file cannot be taken).         *)
(***************************************************************************)
C7_AtMostOneJob ==
  /\ Cardinality(JobsInFlight) <= 1
  /\ app = "running"
  /\ JobsInFlight # {} => ~ENABLED on_convert_file

(***************************************************************************)
(* C8: the progress values of a job are integers in 0..100, never          *)
(* decrease, and end with 100 when the job ends with finished.             *)
(***************************************************************************)
C8_ProgressMonotoneEndsAt100 ==
  /\ \A k \in 1..Len(progress) : progress[k] \in 0..100
  /\ \A k \in 1..(Len(progress) - 1) : progress[k] <= progress[k + 1]
  /\ (pc = "done" /\ signals = <<<<"finished", output_path>>>>) =>
       progress[Len(progress)] = 100

\* the same for the jobs whose path ends in ".txt" or ".epub" as written
ProgressMonotoneEndsAt100WhenDispatched ==
  (EndsWith(input_path, DotTxt) \/ EndsWith(input_path, DotEpub)) =>
    C8_ProgressMonotoneEndsAt100

(***************************************************************************)
(* C9: a job emits one terminal signal, finished or error, never both and  *)
(* never none once it has ended, and cannot stop before emitting it; once  *)
(* a render has raised, the signal is error, no file is written and the    *)
(* renderer is not called again.                                           *)
(***************************************************************************)
RenderRaised == failed \in {"toc_estimate", "chapter", "toc_final", "txt_write"}

OneOutcome ==
  /\ Len(signals) <= 1
  /\ pc = "done" <=> Len(signals) = 1
  /\ pc # "done" => ENABLED Next
  /\ RenderRaised =>
       /\ ~output_file.exists
       /\ \A k \in 1..Len(signals) :
            signals[k] = <<"error", ErrorMessage(failed)>>

C9_OneOutcomeErrorOnRenderFailure ==
  /\ []OneOutcome
  /\ [][RenderRaised => (renders' = renders /\ documents' = documents)]_vars

C9_Witness ==
  /\ IsEpubJob
  /\ pc = "done"
  /\ failed = "chapter"
  /\ Len(ChapterRenders) = 1
  /\ Len(ResolvedItems) = 3
  /\ signals = <<<<"error", ErrorMessage("chapter")>>>>
  /\ ~output_file.exists

(***************************************************************************)
(* The resolver's answer read against the index it was given.              *)
(***************************************************************************)
Resolved == rpc = "resolved"
ExactEntries(raw) ==
  {k \in 1..Len(images_by_path) : images_by_path[k].path = raw}
NamedEntries(raw) ==
  {k \in 1..Len(images_by_path) :
     basename(images_by_path[k].path) = basename(raw)}
BuiltFrom(k) ==
  /\ data_uri.found
  /\ data_uri.content = images_by_path[k].item.content
  /\ data_uri.media_type = images_by_path[k].item.media_type

ExactMatchFirst ==
  Resolved =>
    LET raw == NormalizeReference(src_value)
    IN \A k \in ExactEntries(raw) : BuiltFrom(k)

FallbackResolves ==
  /\ Resolved
  /\ Len(images_by_path) = 1
  /\ images_by_path[1].path = ImgDir \o Slash \o CoverJpg
  /\ src_value = ImgDirCapital \o Slash \o CoverJpg
  /\ data_uri.found

(***************************************************************************)
(* The inliner's output read against its input.                            *)
(***************************************************************************)
Inlined == rpc = "inlined"
Styled == rpc = "styled"

\* the text is <i NAME = QUOTE value QUOTE> with NAME one of src, href,
\* xlink:href in any case and a value free of the quote that delimits it
IsReferenceAttribute(parts) ==
  /\ parts \in AttributeParts
  /\ Lower(parts.attr) \in Range(AttrNames)
  /\ parts.open = parts.close
  /\ parts.open[1] \notin Range(parts.ref)

\* the attribute with the data URI for a value
WithDataUri(parts, uri) ==
  { TextOf([parts EXCEPT !.ref = DataUriText(uri), !.eq = eq]) :
      eq \in {parts.eq, <<"=">>} }

AttributeInlined(parts) ==
  LET uri == data_uri_for_src(images_by_path, parts.ref)
  IN /\ ( \/ parts.ref = <<>>
          \/ StartsWith(parts.ref, DataPrefix)
          \/ /\ ExactHits(images_by_path, NormalizeReference(parts.ref)) = {}
             /\ FilenameHits(images_by_path, NormalizeReference(parts.ref)) = {} )
          => ~uri.found
     /\ ~uri.found => content.after = content.before
     /\ uri.found => content.after \in WithDataUri(parts, uri)

\* C11: a src / href / xlink:href attribute (name in any case) whose value is
\* empty, a data URI or matches no index entry is left as it is, the resolver
\* returning null; one whose value resolves has the data URI for a value.
C11_AttributeReplacedIffResolved ==
  (Inlined /\ IsReferenceAttribute(content.parts)) =>
    AttributeInlined(content.parts)

\* the same for the attributes whose value holds neither ' nor "
AttributeReplacedIffResolvedWithoutQuoteInValue ==
  (/\ Inlined
   /\ IsReferenceAttribute(content.parts)
   /\ Range(content.parts.ref) \cap QuoteChars = {}) =>
    AttributeInlined(content.parts)

\* a resolvable attribute value is replaced
AttributeReplaced ==
  /\ Inlined
  /\ IsReferenceAttribute(content.parts)
  /\ content.parts.ref = ImgDirCapital \o Slash \o CoverJpg
  /\ content.after # content.before

\* the text is a:url(value); with the value bare or quoted
IsCssUrl(parts) == parts \in CssParts /\ parts.eq = <<"(">>

\* url("<data URI>") in the place of the url(...) of the text
WithCssDataUri(parts, uri) ==
  parts.pre \o <<"u", "r", "l", "(", "\"">> \o DataUriText(uri)
    \o <<"\"", ")">> \o Tail(parts.post)

CssUrlInlined(text) ==
  LET uri == data_uri_for_src(images_by_path, text.parts.ref)
  IN /\ uri.found => text.after = WithCssDataUri(text.parts, uri)
     /\ ~uri.found => text.after = text.before

\* C12: in a chapter's markup and in the stylesheet text alike, a url(...)
\* value the resolver resolves is replaced by its data URI, any other is left
\* as written.
C12_CssUrlReplacedIffResolved ==
  /\ (Inlined /\ IsCssUrl(content.parts)) => CssUrlInlined(content)
  /\ (Styled /\ IsCssUrl(styles.parts)) => CssUrlInlined(styles)

\* no url(...) is rewritten, whatever the index holds
CssUrlLeftAsWritten ==
  /\ (Inlined /\ IsCssUrl(content.parts)) => content.after = content.before
  /\ (Styled /\ IsCssUrl(styles.parts)) => styles.after = styles.before

\* the image items of the manifest whose file name is that of raw
NamedItems(raw) ==
  {k \in 1..Len(manifest_items) :
     /\ IsImageItem(manifest_items[k])
     /\ basename(ReplaceBackslashes(manifest_items[k].name)) = basename(raw)}

\* the image items of the manifest whose normalised name is path
ItemsAt(path) ==
  {k \in 1..Len(manifest_items) :
     /\ IsImageItem(manifest_items[k])
     /\ ReplaceBackslashes(manifest_items[k].name) = path}

Earliest(positions) == CHOOSE k \in positions : \A j \in positions : k <= j
Latest(positions) == CHOOSE k \in positions : \A j \in positions : j <= k

\* a reference the fallback has to choose an entry for
AmbiguousFallback ==
  /\ Resolved
  /\ src_value # <<>>
  /\ ~StartsWith(src_value, DataPrefix)
  /\ ExactEntries(NormalizeReference(src_value)) = {}
  /\ Cardinality(NamedEntries(NormalizeReference(src_value))) >= 2

\* C13 as stated: with no exact match and several entries of the reference's
\* file name, the fallback gives the entry seen last while the manifest was
\* read.
C13_FallbackLastSeenWins ==
  AmbiguousFallback =>
    data_uri =
      DataUri(manifest_items[Latest(NamedItems(NormalizeReference(src_value)))])

\* what the code does instead: the fallback gives the entry whose path was
\* seen first while the manifest was read, and that entry holds the last item
\* seen under its path
FallbackFirstSeenPathWins ==
  AmbiguousFallback =>
    LET named == NamedItems(NormalizeReference(src_value))
        path == ReplaceBackslashes(manifest_items[Earliest(named)].name)
    IN data_uri = DataUri(manifest_items[Latest(ItemsAt(path))])

\* img/c.j and o/c.j are indexed in that order and Img/c.j resolves to the
\* content of img/c.j
FallbackChoseFirst ==
  /\ AmbiguousFallback
  /\ Len(manifest_items) = 2
  /\ manifest_items[1].content = "A"
  /\ manifest_items[2].content = "C"
  /\ src_value = ImgDirCapital \o Slash \o CoverJpg
  /\ data_uri.content = "A"

(***************************************************************************)
(* The settings the window starts with, read against config.json.          *)
(***************************************************************************)
ValidlyPersisted(key) ==
  /\ config_file.kind = "object"
  /\ config_file.object[key] \in
       (IF key = "toc_start_page" THEN JsonNumbers ELSE JsonBooleans)

SettingShown(key) ==
  CASE key = "page_numbers" -> TokenOfBool(page_numbers_check)
    [] key = "toc" -> TokenOfBool(toc_check)
    [] key = "toc_numbers" -> TokenOfBool(toc_numbers_check)
    [] key = "toc_start_page" -> TokenOfInt(toc_start_page_spin)

DefaultsWhereNotPersisted ==
  \A key \in SettingKeys :
    ~ValidlyPersisted(key) => SettingShown(key) = DefaultSettings.object[key]

\* C14: whatever config.json is (absent, unreadable, not JSON, JSON that is
\* not an object, an object lacking keys), startup does not abort and every
\* setting not validly persisted has its documented default: page_numbers
\* true, toc false, toc_numbers false, toc_start_page 1.
C14_StartupFallsBackToDefaults ==
  /\ spc # "aborted"
  /\ spc = "shown" => DefaultsWhereNotPersisted

\* the same when config.json is absent, unreadable or not JSON
DefaultsWhenNothingIsRead ==
  config_file.kind \in {"absent", "unreadable", "invalid"} =>
    /\ spc # "aborted"
    /\ spc = "shown" => DefaultsWhereNotPersisted

(***************************************************************************)
(* C15: with page numbers on, footers run on across chapter boundaries:    *)
(* the first page of a chapter prints the number after the one on the last *)
(* page of the chapter rendered before it, each chapter's counter-reset    *)
(* being the running page count at its start.                              *)
(***************************************************************************)
C15_FootersContinuousAcrossChapters ==
  (IsEpubJob /\ settings.page_numbers) =>
    LET cr == ChapterRenders
        out == output_file.pages
    IN /\ \A j \in 1..(Len(cr) - 1) :
            /\ cr[j + 1].reset = cr[j].reset + cr[j].pages
            /\ Footer(cr[j + 1], 1) = Footer(cr[j], cr[j].pages) + 1
       /\ \A p \in 1..(Len(out) - 1) :
            (out[p].kind = "chapter" /\ out[p + 1].kind = "chapter") =>
              out[p + 1].footer = out[p].footer + 1

\* chapters of 3 and 2 pages from page 1 on: footers 1, 2, 3 then 4, 5
C15_Witness ==
  /\ IsEpubJob
  /\ settings.page_numbers
  /\ ~settings.toc
  /\ settings.toc_start_page = 1
  /\ output_file.exists
  /\ Len(ChapterRenders) = 2
  /\ ChapterRenders[1].pages = 3
  /\ Footer(ChapterRenders[1], 3) = 3
  /\ Footer(ChapterRenders[2], 1) = 4
  /\ output_file.pages[4].footer = 4

\* a step that starts and renders a chapter
ChapterRendered ==
  /\ Len(renders') = Len(renders) + 1
  /\ renders'[Len(renders')].kind = "chapter"

\* C16 as stated: when a chapter starts, the value recorded for it in
\* ChapterPageMap and the counter-reset injected in its document are the same
\* value, the running page count at that moment; the count then advances by
\* the chapter's rendered page count.
C16_MapValueIsCounterReset ==
  [][(ChapterRendered /\ settings.page_numbers) =>
       LET doc == renders'[Len(renders')]
       IN /\ chapter_page_map'[doc.name] = current_page
          /\ doc.reset = current_page
          /\ current_page' = current_page + doc.pages]_vars

\* C16, amended: when a chapter starts, the value recorded for it in
\* ChapterPageMap is the running page count plus 1; the counter-reset injected
\* in its document (with page numbers on; none is injected otherwise) is the
\* running page count itself, one less than the recorded value; the count then
\* advances by the chapter's rendered page count.
C16_MapValueIsCounterResetPlusOne ==
  [][ChapterRendered =>
       LET doc == renders'[Len(renders')]
       IN /\ chapter_page_map'[doc.name] = current_page + 1
          /\ doc.reset = IF settings.page_numbers THEN current_page
                         ELSE NoReset
          /\ settings.page_numbers =>
               chapter_page_map'[doc.name] = doc.reset + 1
          /\ current_page' = current_page + doc.pages]_vars

\* a chapter recorded at page 5 whose document resets the counter to 4
C16_Witness ==
  /\ settings.page_numbers
  /\ Len(ChapterRenders) = 1
  /\ ChapterRenders[1].reset = 4
  /\ ChapterRenders[1].pages = 3
  /\ chapter_page_map[ChapterRenders[1].name] = 5
  /\ current_page = 7

\* the final TOC has come out with another length than the estimate
TocLengthDiffers ==
  /\ IsEpubJob
  /\ settings.toc
  /\ FinalTocRendered
  /\ FinalTocLength # EstimatedTocLength

\* C17 as stated: when the final TOC's length differs from the estimate, the
\* baseline is recomputed from the real length and the chapters' start pages
\* are those that follow a TOC of the final length.
C17_BaselineRecomputedFromRealLength ==
  TocLengthDiffers =>
    LET cr == ChapterRenders
    IN \A j \in 1..Len(cr) :
         NotStartedAgain(cr, j) =>
           chapter_page_map[cr[j].name] =
             Baseline(FinalTocLength, settings.toc_start_page) + 1
               + PagesBefore(cr, j)

\* C17, amended: when the final TOC's length differs from the estimate, one
\* warning is logged and nothing is recomputed: the running page count and
\* the chapters' start pages stay those that follow a TOC of the estimated
\* length.
C17_BaselineKeptFromEstimate ==
  TocLengthDiffers =>
    LET cr == ChapterRenders
    IN /\ warnings = 1
       /\ current_page =
            settings.toc_start_page - 1 + EstimatedTocLength + SumPages(cr)
       /\ \A j \in 1..Len(cr) :
            NotStartedAgain(cr, j) =>
              chapter_page_map[cr[j].name] =
                settings.toc_start_page + EstimatedTocLength
                  + PagesBefore(cr, j)

\* estimate 1 page, final TOC 2 pages, the one chapter still recorded at 2
C17_Witness ==
  /\ TocLengthDiffers
  /\ settings.toc_start_page = 1
  /\ EstimatedTocLength = 1
  /\ FinalTocLength = 2
  /\ Len(ChapterRenders) = 1
  /\ chapter_page_map[ChapterRenders[1].name] = 2
  /\ output_file.exists

\* the names of the documents rendered as chapters, in rendering order
ChapterNames == [k \in 1..Len(ChapterRenders) |-> ChapterRenders[k].name]

\* the spine's entries that name an item of the book, in declared order, then
\* the documents of the manifest no spine entry names, in manifest order
SpineThenRest ==
  SelectSeq(book.spine, LAMBDA id : \E k \in 1..Len(book.manifest) :
                                      book.manifest[k] = id)
    \o SelectSeq(book.manifest, LAMBDA name : \A k \in 1..Len(book.spine) :
                                                book.spine[k] # name)

Occurrences(seq, x) == Cardinality({k \in 1..Len(seq) : seq[k] = x})

\* C18: the documents rendered as chapters are the items the spine names, in
\* declared order, then the manifest's documents the spine does not name, in
\* manifest order; a document is rendered once, or as often as the spine
\* lists it, and none is left out.
C18_ChaptersAreSpineThenUnlistedDocuments ==
  IsEpubJob =>
    /\ IsPrefix(ChapterNames, SpineThenRest)
    /\ (pc = "done" /\ failed = None) =>
         /\ ChapterNames = SpineThenRest
         /\ \A k \in 1..Len(book.manifest) :
              LET name == book.manifest[k]
                  listed == Occurrences(book.spine, name)
              IN Occurrences(ChapterNames, name) =
                   IF listed = 0 THEN 1 ELSE listed

\* spine <<ch2>>, manifest <<ch1, ch2>>: ch2 is rendered, then ch1
C18_Witness ==
  /\ IsEpubJob
  /\ pc = "done"
  /\ failed = None
  /\ book.manifest = <<"ch1.xhtml", "ch2.xhtml">>
  /\ book.spine = <<"ch2.xhtml">>
  /\ ChapterNames = <<"ch2.xhtml", "ch1.xhtml">>

(***************************************************************************)
(* The two TOC documents read against book.toc and ChapterPageMap.         *)
(***************************************************************************)
TocMade == tpc = "made"

\* the number a page_num text reads as
RECURSIVE ParseInt(_)
ParseInt(digits) ==
  IF digits = <<>> THEN 0
  ELSE 10 * ParseInt(SubSeq(digits, 1, Len(digits) - 1))
       + (CHOOSE d \in 0..9 : Digit(d) = <<digits[Len(digits)]>>)

\* the href without what follows its first '#', when that is one file name
StrippedKey(href) ==
  LET cut == IF \E k \in 1..Len(href) : href[k] = "#"
             THEN CHOOSE k \in 1..Len(href) :
                    href[k] = "#" /\ \A j \in 1..(k - 1) : href[j] # "#"
             ELSE Len(href) + 1
  IN IF cut = 2 THEN href[1] ELSE None

\* the Links and tuples of a list of items, children included
RECURSIVE CountEntries(_)
CountEntries(items) ==
  IF items = <<>> THEN 0
  ELSE (IF Head(items).type = "section" THEN 0 ELSE 1)
       + CountEntries(Head(items).children) + CountEntries(Tail(items))

WithoutPage(entries) ==
  [k \in 1..Len(entries) |-> [entries[k] EXCEPT !.page_num = <<>>]]

\* C19: an entry of the final TOC, at any depth, shows a page number exactly
\* when toc_numbers is on and its href cut at the first '#' is a key of
\* ChapterPageMap, and the number is that key's value; no entry of the
\* estimate's TOC shows a number; both list the same entries in one order.
C19_FinalTocNumbersFromPageMap ==
  TocMade =>
    /\ \A k \in 1..Len(real_toc_html) :
         LET entry == real_toc_html[k]
             key == StrippedKey(entry.href)
         IN /\ entry.page_num # <<>> <=>
                 (settings.toc_numbers /\ key \in DOMAIN chapter_page_map)
            /\ entry.page_num # <<>> =>
                 ParseInt(entry.page_num) = chapter_page_map[key]
    /\ \A k \in 1..Len(dummy_toc_html) : dummy_toc_html[k].page_num = <<>>
    /\ WithoutPage(real_toc_html) = dummy_toc_html
    /\ Len(real_toc_html) = CountEntries(book_toc)

\* a tuple for ch1.xhtml#s1 with a child for ch2.xhtml: pages 2 and 12, the
\* child indented
C19_Witness ==
  /\ TocMade
  /\ settings.toc_numbers
  /\ Len(real_toc_html) = 2
  /\ real_toc_html[1].href = <<"ch1.xhtml", "#", "s1">>
  /\ real_toc_html[1].page_num = <<"2">>
  /\ real_toc_html[2].indent = 20
  /\ real_toc_html[2].page_num = <<"1", "2">>
  /\ dummy_toc_html[2].page_num = <<>>

\* the names of the chapters rendered, in the order of their rendering
ChapterOrder(docs) ==
  LET chapters == SelectSeq(docs, LAMBDA d : d.kind = "chapter")
  IN [k \in 1..Len(chapters) |-> chapters[k].name]

\* the page counts of the TOCs rendered: the estimate's, then the final one's
TocLengths(docs) ==
  LET tocs == SelectSeq(docs, LAMBDA d : d.kind # "chapter")
  IN [k \in 1..Len(tocs) |-> <<tocs[k].kind, tocs[k].pages>>]

SecondRunDone == first_run.ran /\ pc = "done" /\ failed = None

NumbersPrinted ==
  /\ IsEpubJob
  /\ settings.page_numbers
  /\ settings.toc
  /\ settings.toc_numbers
  /\ FinalTocRendered

\* the number the final TOC prints for the j-th of the chapters cr is the
\* footer of that chapter's first page, in its document and in the file
TocNumberIsFirstFooter(cr, j) ==
  /\ chapter_page_map[cr[j].name] = Footer(cr[j], 1)
  /\ output_file.exists =>
       output_file.pages[FirstPageOf(ChapterFirsts, j)].footer
         = chapter_page_map[cr[j].name]

\* C21 as stated: with page_numbers and toc_numbers enabled, the number the
\* final TOC prints for a chapter equals the footer printed on that chapter's
\* first page, for every chapter, whether or not the final TOC has the
\* estimate's length.
C21_TocNumberIsFirstFooter ==
  NumbersPrinted =>
    \A j \in 1..Len(ChapterRenders) :
      TocNumberIsFirstFooter(ChapterRenders, j)

\* C21 amended: the same, for every rendered chapter that is not rendered
\* again later in the job (the map keeps one number per name, that of the
\* last rendering).
C21_TocNumberIsFirstFooterOfLastRendering ==
  NumbersPrinted =>
    \A j \in 1..Len(ChapterRenders) :
      NotStartedAgain(ChapterRenders, j) =>
        TocNumberIsFirstFooter(ChapterRenders, j)

\* two chapters behind a final TOC one page longer than the estimate; the
\* second chapter's first page is the file's sixth and prints the TOC's 5
C21_Witness ==
  /\ NumbersPrinted
  /\ output_file.exists
  /\ settings.toc_start_page = 1
  /\ EstimatedTocLength = 1
  /\ FinalTocLength = 2
  /\ Len(ChapterRenders) = 2
  /\ ChapterRenders[1].name # ChapterRenders[2].name
  /\ ChapterRenders[1].pages = 3
  /\ chapter_page_map[ChapterRenders[2].name] = 5
  /\ output_file.pages[6].footer = 5

\* the job has emitted finished(output_path)
FinishedEmitted == <<"finished", output_path>> \in Range(signals)

\* convert_txt_to_pdf has run to its last statement
TxtConverted ==
  /\ RendersOf("txt") # <<>>
  /\ progress = <<0, 10, 30, 60, 100>>

\* convert_epub_to_pdf has run to its last statement
EpubConverted ==
  /\ Len(progress) >= 2
  /\ progress[2] = 5
  /\ progress[Len(progress)] = 100

\* C22: for every path the window accepts (".epub" and ".txt" in any letter
\* case), a job that emits finished(output path) has run exactly one of
\* convert_txt_to_pdf and convert_epub_to_pdf to completion and has written
\* the output PDF; success is never reported for a job that converted nothing.
C22_FinishedMeansConverted ==
  (Accepted(input_path) /\ FinishedEmitted) =>
    /\ TxtConverted # EpubConverted
    /\ output_file.exists

\* the same for the paths that end in ".txt" or ".epub" as written
FinishedMeansConvertedWhenDispatched ==
  (EndsWith(input_path, DotTxt) \/ EndsWith(input_path, DotEpub)) =>
    C22_FinishedMeansConverted

\* success reported for a job that rendered nothing and wrote no file
FinishedWithoutConversion ==
  /\ Accepted(input_path)
  /\ FinishedEmitted
  /\ renders = <<>>
  /\ progress = <<0>>
  /\ ~output_file.exists

\* the w-th job has been started and has not emitted its terminal signal
Started(w) == w \in 1..Len(workers) /\ workers[w].st = "running"

\* the w-th job has emitted finished or error
Reported(w) == w \in 1..Len(workers) /\ workers[w].st \in {"emitted", "handled"}

\* the window has handled the w-th job's terminal signal
Handled(w) == w \in 1..Len(workers) /\ workers[w].st = "handled"

\* a step of on_worker_finished or on_worker_error
OutcomeHandled ==
  /\ Len(pending') < Len(pending)
  /\ workers'[Head(pending).worker].st = "handled"

\* what the handlers leave: both buttons enabled, no worker thread
Unlocked ==
  /\ convert_button'
  /\ select_button'
  /\ worker_thread' = 0

\* C23: every started job eventually reports a terminal outcome, the window
\* handles it, and handling it, success or failure alike, enables the convert
\* and select buttons and clears the worker and worker-thread references.
C23_EveryJobEndsAndUnlocks ==
  /\ \A w \in 1..MaxJobs : Started(w) ~> Reported(w)
  /\ \A w \in 1..MaxJobs : Started(w) ~> Handled(w)
  /\ [][OutcomeHandled => Unlocked]_vars

\* the same as long as the process is not aborted by a second job's start
EveryJobEndsAndUnlocksUnlessAborted ==
  /\ \A w \in 1..MaxJobs : Started(w) ~> (Handled(w) \/ app = "aborted")
  /\ [][OutcomeHandled => Unlocked]_vars

\* a job started beside a running one has aborted the process
AbortedWhileRunning ==
  /\ app = "aborted"
  /\ \E w \in 1..Len(workers) : workers[w].st = "running"

TypeOK ==
  /\ pc \in {"run", "txt", "txt_write", "epub", "toc_estimate", "chapters",
             "merge", "emit_finished", "except", "done"}
  /\ settings \in Settings
  /\ i \in 1..(Len(items_to_process) + 1)
  /\ warnings \in 0..1

=============================================================================
